---- MODULE Spec2Model ----
(***************************************************************************)
(* A model of the QR code extractor: the detection pipeline of            *)
(* analyze_qr_codes.py (QRCodeAnalyzer), the two image fetchers            *)
(* (utils/image_downloader.py and QRCodeAnalyzer.download_image), the     *)
(* runs of the four scripts from the reading of the input file over the   *)
(* row loop to the exit status, and process_image / decode_qr_code of     *)
(* process_qr_codes.py (QRCodeProcessor).                                  *)
(*                                                                         *)
(* Text is modelled in two ways.  Payloads and cell values are TLA+        *)
(* strings.  URLs and Content-Type headers, whose characters the code      *)
(* inspects (strip, startswith, lower), are sequences of one-character     *)
(* strings.                                                                *)
(***************************************************************************)
EXTENDS Integers, Sequences, FiniteSets, TLC

VARIABLES
    \* ---- QRCodeAnalyzer.analyze_image / format_qr_result ----
    apc,             \* position in analyze_image
    origSyms,        \* what pyzbar.decode answers on the original bitmap
    enhanced_images, \* the list enhance_image returned
    vi,              \* index of the stage-2 loop in enhanced_images
    all_qr_data,     \* payloads collected by the stages
    unique_qr_data,  \* the list analyze_image returns
    result_text,     \* format_qr_result(unique_qr_data)
    pyzCalls,        \* number of detect_qr_with_pyzbar calls so far
    cvCalls,         \* number of detect_qr_with_opencv calls so far
    alog,            \* history: the stages' decoder calls and steps, in order
    \* ---- utils.image_downloader.download_image ----
    dl_pc,           \* position in download_image
    dl_arg,          \* the url argument as the caller passed it
    dl_url,          \* the local url (rebound to url.strip())
    max_retries,     \* the max_retries argument
    attempt,         \* the local attempt
    last_error,      \* the local last_error
    dl_ret,          \* the value returned: "None" or "Image" ("-" before)
    dl_log,          \* the GET requests, sleeps and Image.open calls made, in order
    \* ---- QRCodeAnalyzer.download_image ----
    an_pc,           \* position in QRCodeAnalyzer.download_image
    an_url,          \* its url argument
    an_row_num,      \* its row_num argument
    an_attempt,      \* the loop variable attempt
    an_ret,          \* the value returned: "None" or "Image" ("-" before)
    an_log,          \* the GET requests, sleeps and Image.open calls made, in order
    error_log,       \* QRCodeAnalyzer.error_log
    \* ---- the row loops of the four scripts ----
    script,          \* which script runs
    sheet,           \* the url cells of the input sheet, one per data row
    idx,             \* number of rows the loop has completed
    row_pc,          \* "start", "loop", then how the run ended
    df,              \* the result cells of every row
    results,         \* self.results (QRCodeAnalyzer, QRCodeProcessor)
    stats,           \* stats (qr_processor, process_all_images)
    processing_log,  \* QRCodeProcessor.processing_log
    successful_qr_codes, \* process_all_images: rows with a QR code
    failed_images,   \* process_all_images: rows without one
    out_file,        \* what the last write of the output file wrote
    fetch_calls,     \* calls of the download function made so far
    decode_calls,    \* calls of the detection function made so far
    outcomes,        \* history: which branch of the loop body each row took
    saves,           \* history: the writes of the output file tried so far
    input_file,      \* what reading the input file gives
    exit_status,     \* the exit status of the process, <<>> while it runs
    cell_writes,     \* history: how often the loop assigned each row's result cells
    \* ---- QRCodeProcessor.decode_qr_code / process_image ----
    pq_pc,           \* position in process_image and decode_qr_code
    pyzbar_available, \* PYZBAR_AVAILABLE
    cv2_available,   \* CV2_AVAILABLE
    qr_detected,     \* the local qr_detected
    decoded_data,    \* the local decoded_data
    extracted_code,  \* the local extracted_code
    pq_calls,        \* history: the backend calls made, with their answers
    pq_result,       \* the result dictionary of process_image
    pq_counters,     \* self.results of the QRCodeProcessor
    pq_before,       \* history: self.results when the current call began
    pq_log           \* self.processing_log, of each result what Logged keeps

avars == <<apc, origSyms, enhanced_images, vi, all_qr_data, unique_qr_data,
           result_text, pyzCalls, cvCalls, alog>>

dvars == <<dl_pc, dl_arg, dl_url, max_retries, attempt, last_error, dl_ret, dl_log>>

nlocals == <<an_pc, an_url, an_row_num, an_attempt, an_ret, an_log>>

nvars == <<nlocals, error_log>>

rvars == <<script, sheet, idx, row_pc, df, results, stats, processing_log,
           successful_qr_codes, failed_images, out_file, fetch_calls, decode_calls,
           outcomes, saves, input_file, exit_status, cell_writes>>

pvars == <<pq_pc, pyzbar_available, cv2_available, qr_detected, decoded_data,
           extracted_code, pq_calls, pq_result, pq_counters, pq_before, pq_log>>

vars == <<avars, dvars, nvars, rvars, pvars>>

\* What the actions of one component leave alone.
notA == <<dvars, nvars, rvars, pvars>>
notD == <<avars, nvars, rvars, pvars>>
notN == <<avars, dvars, rvars, pvars>>
notR == <<avars, dvars, nlocals, pvars>>
notP == <<avars, dvars, nvars, rvars>>

----------------------------------------------------------------------------
\* Bounds of the model.

\* Largest number of symbols one pyzbar.decode call reports.
MaxSymbols == 3

\* Largest max_retries argument of utils.image_downloader.download_image
\* (config.MAX_RETRIES, its default, is 2).
MaxRetriesArg == 3

\* Largest number of data rows of a sheet.
MaxRows == 3

\* Largest number of symbols pyzbar reports to QRCodeProcessor.decode_qr_code.
MaxPqSymbols == 2

\* All sequences over S of length at most n.
BoundedSeq(S, n) == UNION {[1..k -> S] : k \in 0..n}

\* Elements of a sequence.
Range(s) == {s[i] : i \in 1..Len(s)}

----------------------------------------------------------------------------
\* Decoder bank of analyze_qr_codes.py.

\* A byte string is a sequence of chunks: a chunk is valid UTF-8 text or an
\* invalid byte.
InvalidByte == "\\xff"
SymbolData == {<<"A">>, <<"B">>, <<"A", InvalidByte>>, <<InvalidByte>>}
\* The symbols pyzbar reports: QR codes with any of the payloads, and one
\* barcode of another kind.
Symbols ==
    [type : {"QRCODE"}, data : SymbolData]
        \cup {[type |-> "CODE128", data |-> <<"A">>]}

\* bytes.decode('utf-8', errors='ignore'): invalid bytes are dropped.
RECURSIVE Utf8DecodeIgnore(_)
Utf8DecodeIgnore(bytes) ==
    IF bytes = <<>> THEN ""
    ELSE (IF Head(bytes) = InvalidByte THEN "" ELSE Head(bytes))
             \o Utf8DecodeIgnore(Tail(bytes))

\* What one pyzbar.decode call can do: raise, or return a list of symbols.
PyzbarAnswers ==
    {[raised |-> TRUE, objs |-> <<>>]}
        \cup {[raised |-> FALSE, objs |-> s] : s \in BoundedSeq(Symbols, MaxSymbols)}

\* What one cv2 detectAndDecode call can do: raise, or return the data string
\* ("" when nothing was decoded).
OpencvAnswers ==
    {[raised |-> TRUE, data |-> ""]}
        \cup {[raised |-> FALSE, data |-> d] : d \in {"", "A", "B"}}

\* [obj for obj in decoded_objects if obj.type == 'QRCODE']
RECURSIVE SelectQr(_)
SelectQr(objs) ==
    IF objs = <<>> THEN <<>>
    ELSE (IF Head(objs).type = "QRCODE" THEN <<Head(objs)>> ELSE <<>>)
             \o SelectQr(Tail(objs))

\* detect_qr_with_pyzbar: the QR symbols of the answer; [] on an exception.
DetectQrWithPyzbar(ans) ==
    IF ans.raised THEN <<>>
    ELSE IF ans.objs # <<>> THEN SelectQr(ans.objs)
    ELSE <<>>

\* detect_qr_with_opencv: [data] when data is truthy, else []; [] on an
\* exception.
DetectQrWithOpencv(ans) ==
    IF ans.raised THEN <<>>
    ELSE IF ans.data # "" THEN <<ans.data>>
    ELSE <<>>

\* [obj.data.decode('utf-8', errors='ignore') for obj in qr_codes]
Payloads(qr_codes) == [i \in 1..Len(qr_codes) |-> Utf8DecodeIgnore(qr_codes[i].data)]

----------------------------------------------------------------------------
\* Enhancer chain of analyze_qr_codes.py.

EnhanceSteps == <<"grayscale", "contrast2.0", "brightness1.5", "sharpness2.0">>

\* Mutant of EnhanceFrom: a step that raises ends the chain.
RECURSIVE EnhanceFromAborting(_, _)
EnhanceFromAborting(k, failing) ==
    IF k > Len(EnhanceSteps) \/ EnhanceSteps[k] \in failing THEN <<>>
    ELSE <<EnhanceSteps[k]>> \o EnhanceFromAborting(k + 1, failing)

\* Lines 131-157 from the k-th step on: each step appends its image, or
\* raises and is passed over by its own "except: pass".
RECURSIVE EnhanceFrom(_, _)
EnhanceFrom(k, failing) ==
    IF k > Len(EnhanceSteps) THEN <<>>
    ELSE (IF EnhanceSteps[k] \in failing THEN <<>> ELSE <<EnhanceSteps[k]>>)
             \o EnhanceFrom(k + 1, failing)

\* enhance_image: the original, then every step that did not raise.
EnhanceImage(failing) == <<"original">> \o EnhanceFrom(1, failing)

----------------------------------------------------------------------------
\* Deduplication and formatting of analyze_qr_codes.py.

\* Mutant of DedupLoop: seen.add(data) is forgotten.
RECURSIVE DedupLoopNoAdd(_, _, _, _)
DedupLoopNoAdd(all, i, seen, unique) ==
    IF i > Len(all) THEN unique
    ELSE IF all[i] \notin seen
         THEN DedupLoopNoAdd(all, i + 1, seen, Append(unique, all[i]))
         ELSE DedupLoopNoAdd(all, i + 1, seen, unique)

\* The loop "for data in all_qr_data: if data not in seen: ..." from its
\* i-th element on.
RECURSIVE DedupLoop(_, _, _, _)
DedupLoop(all, i, seen, unique) ==
    IF i > Len(all) THEN unique
    ELSE IF all[i] \notin seen
         THEN DedupLoop(all, i + 1, seen \cup {all[i]}, Append(unique, all[i]))
         ELSE DedupLoop(all, i + 1, seen, unique)

\* Mutant of FormatQrResult: the boundary between one and several payloads
\* is off by one.
FormatQrResultOffByOne(qr_data_list) ==
    IF qr_data_list = <<>> THEN "NOT_FOUND"
    ELSE IF Len(qr_data_list) <= 2 THEN qr_data_list[1]
    ELSE ToString(Len(qr_data_list)) \o " QR codes found"

\* format_qr_result
FormatQrResult(qr_data_list) ==
    IF qr_data_list = <<>> THEN "NOT_FOUND"
    ELSE IF Len(qr_data_list) = 1 THEN qr_data_list[1]
    ELSE ToString(Len(qr_data_list)) \o " QR codes found"

----------------------------------------------------------------------------
\* QRCodeAnalyzer.analyze_image followed by format_qr_result, as
\* process_excel calls them on a downloaded image.

\* analyze_image is not running.
AIdle ==
    /\ apc = "idle"
    /\ origSyms = [raised |-> FALSE, objs |-> <<>>]
    /\ enhanced_images = <<>>
    /\ vi = 0
    /\ all_qr_data = <<>>
    /\ unique_qr_data = <<>>
    /\ result_text = ""
    /\ pyzCalls = 0
    /\ cvCalls = 0
    /\ alog = <<>>

AInit ==
    /\ apc = "stage1"
    /\ origSyms \in PyzbarAnswers
    /\ enhanced_images = <<>>
    /\ vi = 0
    /\ all_qr_data = <<>>
    /\ unique_qr_data = <<>>
    /\ result_text = ""
    /\ pyzCalls = 0
    /\ cvCalls = 0
    /\ alog = <<>>

\* One entry of alog: the stage, what it did (ev), on which image, and the
\* payloads a decoder call returned.
Step(stage, ev, image, payloads) ==
    [stage |-> stage, ev |-> ev, image |-> image, payloads |-> payloads]

\* The entry of alog for the call of enhance_image, with the steps that
\* raised in it.
EnhanceStep(failing) ==
    [stage |-> "TryEnhanced", ev |-> "enhance", image |-> "original", payloads |-> <<>>,
     failed |-> failing]

\* Mutant of AfterStage2: stage 3 is entered whatever was collected.
AfterStage2Always(collected) == "stage3"

\* Line 186, "if not all_qr_data": stage 3 runs only when nothing was
\* collected.
AfterStage2(collected) == IF collected = <<>> THEN "stage3" ELSE "dedup"

\* Line 177, "if not all_qr_data": stage 2 runs only when nothing was
\* collected.
AfterStage1(collected) == IF collected = <<>> THEN "enhance" ELSE AfterStage2(collected)

\* Mutant of Stage2Breaks: the break is forgotten.
Stage2NeverBreaks(qr_codes) == FALSE

\* Lines 181-183, "if qr_codes: ... break".
Stage2Breaks(qr_codes) == qr_codes # <<>>

\* Mutant of NextVariant: the loop does not advance.
NextVariantStuck(i) == i

\* The for loop of line 179 moves on to the next variant.
NextVariant(i) == i + 1

\* Stage 1: pyzbar on the original image.
Stage1 ==
    /\ apc = "stage1"
    /\ LET qr_codes == DetectQrWithPyzbar(origSyms)
       IN /\ all_qr_data' = (IF qr_codes # <<>> THEN all_qr_data \o Payloads(qr_codes)
                             ELSE all_qr_data)
          /\ apc' = AfterStage1(all_qr_data')
          /\ alog' = Append(alog, Step("TryOriginal", "pyzbar", "original", Payloads(qr_codes)))
    /\ pyzCalls' = pyzCalls + 1
    /\ UNCHANGED <<origSyms, enhanced_images, vi, unique_qr_data, result_text, cvCalls>>
    /\ UNCHANGED notA

\* Stage 2, first half: enhance_image(img); any set of steps may raise.
Stage2Enhance ==
    /\ apc = "enhance"
    /\ \E failing \in SUBSET Range(EnhanceSteps) :
           /\ enhanced_images' = EnhanceImage(failing)
           /\ alog' = Append(alog, EnhanceStep(failing))
    /\ vi' = 1
    /\ apc' = "variants"
    /\ UNCHANGED <<origSyms, all_qr_data, unique_qr_data, result_text, pyzCalls, cvCalls>>
    /\ UNCHANGED notA

\* Stage 2, one iteration of "for enhanced_img in enhanced_images".
Stage2Decode ==
    /\ apc = "variants"
    /\ vi <= Len(enhanced_images)
    /\ \E ans \in (IF enhanced_images[vi] = "original" THEN {origSyms} ELSE PyzbarAnswers) :
           LET qr_codes == DetectQrWithPyzbar(ans)
           IN /\ all_qr_data' = (IF qr_codes # <<>> THEN all_qr_data \o Payloads(qr_codes)
                                 ELSE all_qr_data)
              /\ alog' = Append(alog, Step("TryEnhanced", "pyzbar", enhanced_images[vi],
                                           Payloads(qr_codes)))
              /\ IF Stage2Breaks(qr_codes)
                 THEN /\ vi' = vi
                      /\ apc' = AfterStage2(all_qr_data')
                 ELSE /\ vi' = NextVariant(vi)
                      /\ apc' = "variants"
    /\ pyzCalls' = pyzCalls + 1
    /\ UNCHANGED <<origSyms, enhanced_images, unique_qr_data, result_text, cvCalls>>
    /\ UNCHANGED notA

\* Stage 2 ran through every variant.
Stage2Exhausted ==
    /\ apc = "variants"
    /\ vi > Len(enhanced_images)
    /\ apc' = AfterStage2(all_qr_data)
    /\ UNCHANGED <<origSyms, enhanced_images, vi, all_qr_data, unique_qr_data,
                   result_text, pyzCalls, cvCalls, alog>>
    /\ UNCHANGED notA

\* Stage 3: OpenCV on the original image.
Stage3 ==
    /\ apc = "stage3"
    /\ \E ans \in OpencvAnswers :
           LET opencv_results == DetectQrWithOpencv(ans)
           IN /\ all_qr_data' = (IF opencv_results # <<>> THEN all_qr_data \o opencv_results
                                 ELSE all_qr_data)
              /\ alog' = Append(alog, Step("TrySecondaryBackend", "opencv", "original",
                                           opencv_results))
    /\ cvCalls' = cvCalls + 1
    /\ apc' = "dedup"
    /\ UNCHANGED <<origSyms, enhanced_images, vi, unique_qr_data, result_text, pyzCalls>>
    /\ UNCHANGED notA

\* "Remove duplicates while preserving order" and return.
RemoveDuplicates ==
    /\ apc = "dedup"
    /\ unique_qr_data' = DedupLoop(all_qr_data, 1, {}, <<>>)
    /\ apc' = "returned"
    /\ alog' = Append(alog, Step("Classify", "dedup", "-", <<>>))
    /\ UNCHANGED <<origSyms, enhanced_images, vi, all_qr_data, result_text, pyzCalls, cvCalls>>
    /\ UNCHANGED notA

\* result_text = self.format_qr_result(qr_data_list)
FormatResult ==
    /\ apc = "returned"
    /\ result_text' = FormatQrResult(unique_qr_data)
    /\ apc' = "formatted"
    /\ alog' = Append(alog, Step("Classify", "format", "-", <<>>))
    /\ UNCHANGED <<origSyms, enhanced_images, vi, all_qr_data, unique_qr_data, pyzCalls, cvCalls>>
    /\ UNCHANGED notA

ANext ==
    \/ Stage1
    \/ Stage2Enhance
    \/ Stage2Decode
    \/ Stage2Exhausted
    \/ Stage3
    \/ RemoveDuplicates
    \/ FormatResult

----------------------------------------------------------------------------
\* Text whose characters the code inspects.

Whitespace == {" ", "\t", "\n"}

RECURSIVE LStrip(_)
LStrip(s) == IF s # <<>> /\ Head(s) \in Whitespace THEN LStrip(Tail(s)) ELSE s

RECURSIVE RStrip(_)
RStrip(s) ==
    IF s # <<>> /\ s[Len(s)] \in Whitespace THEN RStrip(SubSeq(s, 1, Len(s) - 1)) ELSE s

\* str.strip()
Strip(s) == RStrip(LStrip(s))

\* str.startswith(prefix)
StartsWith(s, prefix) == Len(s) >= Len(prefix) /\ SubSeq(s, 1, Len(prefix)) = prefix

\* str.lower(), on the letters the model uses.
LowerChar(c) ==
    CASE c = "I" -> "i" [] c = "M" -> "m" [] c = "A" -> "a" [] c = "G" -> "g"
      [] c = "E" -> "e" [] c = "H" -> "h" [] c = "T" -> "t" [] c = "P" -> "p"
      [] OTHER -> c
Lower(s) == [i \in 1..Len(s) |-> LowerChar(s[i])]

HttpScheme == <<"h", "t", "t", "p", ":", "/", "/">>
HttpsScheme == <<"h", "t", "t", "p", "s", ":", "/", "/">>
ImagePrefix == <<"i", "m", "a", "g", "e", "/">>

\* The values a url cell or argument can hold: strings and non-strings
\* (None, the float NaN of an empty pandas cell, integers).
\* chars is str(v).
StrValue(chars) == [type |-> "str", chars |-> chars, num |-> 0]
NoneValue == [type |-> "NoneType", chars |-> <<"N", "o", "n", "e">>, num |-> 0]
NaNValue == [type |-> "float", chars |-> <<"n", "a", "n">>, num |-> 0]
IntValue(n) == [type |-> "int", chars |-> <<ToString(n)>>, num |-> n]

UrlStrings ==
    { <<>>,
      <<" ">>,
      HttpScheme \o <<"x">>,
      <<" ">> \o HttpsScheme \o <<"x">> \o <<"\n">>,
      <<"f", "t", "p", ":", "/", "/", "x">>,
      <<"H", "T", "T", "P", ":", "/", "/", "x">>,
      <<"h", "t", "t", "p">>,
      <<"x">> \o HttpScheme }

UrlArguments ==
    {StrValue(c) : c \in UrlStrings} \cup {NoneValue, NaNValue, IntValue(0), IntValue(7)}

\* Python truth value of such a value: None, "" and 0 are false; NaN is true.
Truthy(v) ==
    CASE v.type = "NoneType" -> FALSE
      [] v.type = "str" -> v.chars # <<>>
      [] v.type = "int" -> v.num # 0
      [] OTHER -> TRUE

----------------------------------------------------------------------------
\* utils.image_downloader.download_image

\* What one requests.get call can do: raise Timeout or ConnectionError, or
\* return a response with a status, a Content-Type header (or none) and a
\* body that is an image or is not.
ContentTypes ==
    { <<"i", "m", "a", "g", "e", "/", "p", "n", "g">>,
      <<"I", "m", "a", "g", "e", "/", "P", "N", "G">>,
      <<"t", "e", "x", "t", "/", "h", "t", "m", "l">>,
      <<"i", "m", "a", "g", "e">>,
      <<>> }

Headers ==
    {[has |-> FALSE, val |-> <<>>]} \cup {[has |-> TRUE, val |-> c] : c \in ContentTypes}

GetAnswers ==
    {[raises |-> e, status |-> 0, ctype |-> [has |-> FALSE, val |-> <<>>], body |-> "-"] :
         e \in {"Timeout", "ConnectionError"}}
        \cup {[raises |-> "-", status |-> 404, ctype |-> h, body |-> "html"] :
                  h \in {[has |-> TRUE, val |-> <<"t", "e", "x", "t", "/", "h", "t", "m", "l">>]}}
        \cup {[raises |-> "-", status |-> 200, ctype |-> h, body |-> b] :
                  h \in Headers, b \in {"image", "corrupt"}}

\* response.raise_for_status(): HTTPError for a 4xx or 5xx status.
RaiseForStatus(status) == IF status >= 400 /\ status < 600 THEN "HTTPError" ELSE "-"

\* response.headers.get('Content-Type', '')
HeaderGet(h, default) == IF h.has THEN h.val ELSE default

\* The classes an exception is an instance of.
Ancestors(exc) ==
    CASE exc = "Timeout" -> {"Timeout", "RequestException", "Exception"}
      [] exc = "ConnectionError" -> {"ConnectionError", "RequestException", "Exception"}
      [] exc = "HTTPError" -> {"HTTPError", "RequestException", "Exception"}
      [] OTHER -> {exc, "Exception"}

\* The except clauses of download_image, in order.
ExceptClauses == <<"Timeout", "RequestException", "Exception">>

\* The first except clause that catches exc.
HandlerFor(exc) ==
    ExceptClauses[CHOOSE i \in 1..Len(ExceptClauses) :
                      /\ ExceptClauses[i] \in Ancestors(exc)
                      /\ \A j \in 1..(i - 1) : ExceptClauses[j] \notin Ancestors(exc)]

\* "if not url or not isinstance(url, str)"
UrlRejected(url) == ~Truthy(url) \/ url.type # "str"

\* Mutant of HasAcceptedScheme: tests for "http" alone.
HasAcceptedSchemeLoose(chars) == StartsWith(chars, <<"h", "t", "t", "p">>)

\* url.startswith(('http://', 'https://'))
HasAcceptedScheme(chars) == StartsWith(chars, HttpScheme) \/ StartsWith(chars, HttpsScheme)

\* Mutant of LoopContinues: the loop stops one attempt early.
LoopContinuesOneLess(att, maxr) == att < maxr

\* "while attempt <= max_retries"
LoopContinues(att, maxr) == att <= maxr

\* Mutant of RetriesAfter: request errors are retried like timeouts.
RetriesAfterAnyRequestError(clause) == clause \in {"Timeout", "RequestException"}

\* The except clauses that let the loop go on; the others return None.
RetriesAfter(clause) == clause = "Timeout"

\* Mutant of RetryDelay: the delay grows with the attempt number.
RetryDelayLinear(att) == att

\* "time.sleep(1)": the delay slept once attempt has been incremented to att.
RetryDelay(att) == 1

\* Mutant of IsImageContentType: the slash is not part of the test.
IsImageContentTypeNoSlash(content_type) ==
    StartsWith(content_type, <<"i", "m", "a", "g", "e">>)

\* content_type.startswith('image/')
IsImageContentType(content_type) == StartsWith(content_type, ImagePrefix)

\* Entries of dl_log.
GetEvent(out, ct) == [ev |-> "GET", out |-> out, secs |-> 0, ctype |-> ct]
SleepEvent(secs) == [ev |-> "SLEEP", out |-> "-", secs |-> secs, ctype |-> <<>>]
OpenEvent(out) == [ev |-> "OPEN", out |-> out, secs |-> 0, ctype |-> <<>>]

\* download_image is not running.
DIdle ==
    /\ dl_pc = "idle"
    /\ dl_arg = NoneValue
    /\ dl_url = NoneValue
    /\ max_retries = 0
    /\ attempt = 0
    /\ last_error = "None"
    /\ dl_ret = "-"
    /\ dl_log = <<>>

\* download_image(url, max_retries=...) has just been called.
DInit ==
    /\ dl_pc = "call"
    /\ dl_arg \in UrlArguments
    /\ dl_url = dl_arg
    /\ max_retries \in 0..MaxRetriesArg
    /\ attempt = 0
    /\ last_error = "None"
    /\ dl_ret = "-"
    /\ dl_log = <<>>

\* Lines 28-43: validate the url, strip it, initialise the loop.
DValidate ==
    /\ dl_pc = "call"
    /\ IF UrlRejected(dl_url)
       THEN /\ dl_ret' = "None"
            /\ dl_pc' = "returned"
            /\ dl_url' = dl_url
       ELSE LET stripped == StrValue(Strip(dl_url.chars))
            IN /\ dl_url' = stripped
               /\ IF ~HasAcceptedScheme(stripped.chars)
                  THEN dl_ret' = "None" /\ dl_pc' = "returned"
                  ELSE dl_ret' = dl_ret /\ dl_pc' = "loop"
    /\ attempt' = 0
    /\ last_error' = "None"
    /\ UNCHANGED <<dl_arg, max_retries, dl_log>>
    /\ UNCHANGED notD

\* What the try block does with the answer of requests.get: the exception it
\* ends with ("-" when it returns), what it returns, and the events it adds
\* to dl_log.
TryBlock(ans) ==
    IF ans.raises # "-"
    THEN [exc |-> ans.raises, ret |-> "-", events |-> <<GetEvent(ans.raises, <<>>)>>]
    ELSE IF RaiseForStatus(ans.status) # "-"
    THEN [exc |-> RaiseForStatus(ans.status), ret |-> "-",
          events |-> <<GetEvent(RaiseForStatus(ans.status), <<>>)>>]
    ELSE LET raw == HeaderGet(ans.ctype, <<>>)
             content_type == Lower(raw)
         IN IF ~IsImageContentType(content_type)
            THEN [exc |-> "-", ret |-> "None", events |-> <<GetEvent("OK", raw)>>]
            ELSE IF ans.body # "image"
            THEN [exc |-> "UnidentifiedImageError", ret |-> "-",
                  events |-> <<GetEvent("OK", raw), OpenEvent("raised")>>]
            ELSE [exc |-> "-", ret |-> "Image",
                  events |-> <<GetEvent("OK", raw), OpenEvent("image")>>]

\* One iteration of "while attempt <= max_retries" begun with attempt = att:
\* the request, the checks of the try block and the except clause that
\* catches what was raised.  kind is "return" or "continue".
AttemptResult(att, maxr, ans) ==
    LET t == TryBlock(ans)
    IN IF t.exc = "-"
       THEN [kind |-> "return", ret |-> t.ret, attempt |-> att, last_error |-> "None",
             events |-> t.events]
       ELSE IF RetriesAfter(HandlerFor(t.exc))
       THEN [kind |-> "continue", ret |-> "-", attempt |-> att + 1, last_error |-> t.exc,
             events |-> t.events \o (IF att + 1 <= maxr
                                     THEN <<SleepEvent(RetryDelay(att + 1))>> ELSE <<>>)]
       ELSE [kind |-> "return", ret |-> "None", attempt |-> att, last_error |-> t.exc,
             events |-> t.events]

DAttempt ==
    /\ dl_pc = "loop"
    /\ LoopContinues(attempt, max_retries)
    /\ \E ans \in GetAnswers :
           LET r == AttemptResult(attempt, max_retries, ans)
           IN /\ dl_log' = dl_log \o r.events
              /\ attempt' = r.attempt
              /\ last_error' = (IF r.last_error = "None" THEN last_error ELSE r.last_error)
              /\ IF r.kind = "return"
                 THEN dl_ret' = r.ret /\ dl_pc' = "returned"
                 ELSE UNCHANGED <<dl_ret, dl_pc>>
    /\ UNCHANGED <<dl_arg, dl_url, max_retries>>
    /\ UNCHANGED notD

\* Lines 80-81: the loop ended without a return.
DExhausted ==
    /\ dl_pc = "loop"
    /\ ~LoopContinues(attempt, max_retries)
    /\ dl_ret' = "None"
    /\ dl_pc' = "returned"
    /\ UNCHANGED <<dl_arg, dl_url, max_retries, attempt, last_error, dl_log>>
    /\ UNCHANGED notD

DNext ==
    \/ DValidate
    \/ DAttempt
    \/ DExhausted

\* The values the loop of download_image can return from attempt = att on.
RECURSIVE LoopReturns(_, _)
LoopReturns(att, maxr) ==
    IF ~LoopContinues(att, maxr) THEN {"None"}
    ELSE UNION {LET r == AttemptResult(att, maxr, ans)
                IN IF r.kind = "continue" THEN LoopReturns(r.attempt, maxr) ELSE {r.ret} :
                    ans \in GetAnswers}

\* The values a whole call download_image(url, max_retries=maxr) can return.
DownloadImageReturns(url, maxr) ==
    IF UrlRejected(url) THEN {"None"}
    ELSE IF ~HasAcceptedScheme(Strip(url.chars)) THEN {"None"}
    ELSE LoopReturns(0, maxr)

----------------------------------------------------------------------------
\* QRCodeAnalyzer.download_image (analyze_qr_codes.py)

MAX_RETRIES == 3
RETRY_DELAY == 2

\* What one requests.get call can do here; the Content-Type is not looked at.
AnalyzerGetAnswers ==
    {a \in GetAnswers : a.ctype.has => a.ctype.val \in {<<"t", "e", "x", "t", "/", "h", "t", "m", "l">>,
                                                        <<"i", "m", "a", "g", "e", "/", "p", "n", "g">>}}

\* The url cells that are passed on to download_image.
AnalyzerUrls == {StrValue(HttpScheme \o <<"x">>), StrValue(<<"f", "t", "p", ":", "/", "/", "x">>)}

\* What the try block does with the answer of requests.get: the exception it
\* ends with ("-" when it returns the image) and the events it adds to an_log.
AnalyzerTryBlock(ans) ==
    IF ans.raises # "-"
    THEN [exc |-> ans.raises, events |-> <<GetEvent(ans.raises, <<>>)>>]
    ELSE IF RaiseForStatus(ans.status) # "-"
    THEN [exc |-> RaiseForStatus(ans.status),
          events |-> <<GetEvent(RaiseForStatus(ans.status), <<>>)>>]
    ELSE IF ans.body # "image"
    THEN [exc |-> "UnidentifiedImageError",
          events |-> <<GetEvent("OK", <<>>), OpenEvent("raised")>>]
    ELSE [exc |-> "-", events |-> <<GetEvent("OK", <<>>), OpenEvent("image")>>]

\* The message log_error is given by the except clause on the last attempt.
FailureMessage(clause) ==
    CASE clause = "Timeout" -> "Download timeout after retries"
      [] clause = "RequestException" -> "Download failed"
      [] OTHER -> "Image validation failed"

\* log_error: the entry appended to error_log (the timestamp is left out).
LogEntry(row_num, url, error_msg) == [row |-> row_num, msg |-> error_msg, url |-> url]

\* download_image is not running.
NIdle ==
    /\ an_pc = "idle"
    /\ an_url = NoneValue
    /\ an_row_num = 0
    /\ an_attempt = 0
    /\ an_ret = "-"
    /\ an_log = <<>>
    /\ error_log = <<>>

\* download_image(url, row_num) has been called and enters
\* "for attempt in range(MAX_RETRIES)".
NInit ==
    /\ an_pc = "loop"
    /\ an_url \in AnalyzerUrls
    /\ an_row_num \in 2..(MaxRows + 1)
    /\ an_attempt = 0
    /\ an_ret = "-"
    /\ an_log = <<>>
    /\ error_log = <<>>

\* One iteration of "for attempt in range(MAX_RETRIES)" with attempt = att.
\* kind is "return" or "continue"; msg is what log_error is given ("-" when
\* it is not called).
AnalyzerAttemptResult(att, ans) ==
    LET t == AnalyzerTryBlock(ans)
        clause == HandlerFor(t.exc)
    IN IF t.exc = "-"
       THEN [kind |-> "return", ret |-> "Image", msg |-> "-", events |-> t.events]
       ELSE IF clause \in {"Timeout", "RequestException"} /\ att < MAX_RETRIES - 1
       THEN [kind |-> "continue", ret |-> "-", msg |-> "-",
             events |-> t.events \o <<SleepEvent(RETRY_DELAY * (att + 1))>>]
       ELSE [kind |-> "return", ret |-> "None", msg |-> FailureMessage(clause),
             events |-> t.events]

\* The return after the loop (line 85) is never reached: the last iteration
\* always returns.
NAttempt ==
    /\ an_pc = "loop"
    /\ an_attempt < MAX_RETRIES
    /\ \E ans \in AnalyzerGetAnswers :
           LET r == AnalyzerAttemptResult(an_attempt, ans)
           IN /\ an_log' = an_log \o r.events
              /\ IF r.kind = "continue"
                 THEN /\ an_attempt' = an_attempt + 1
                      /\ UNCHANGED <<an_ret, an_pc, error_log>>
                 ELSE /\ an_ret' = r.ret
                      /\ an_pc' = "returned"
                      /\ error_log' = (IF r.msg = "-" THEN error_log
                                       ELSE Append(error_log,
                                                   LogEntry(an_row_num, an_url, r.msg)))
                      /\ UNCHANGED an_attempt
    /\ UNCHANGED <<an_url, an_row_num>>
    /\ UNCHANGED notN

NNext == NAttempt

\* What a whole call of QRCodeAnalyzer.download_image can end with from
\* attempt = att on: the value returned and the message logged.
RECURSIVE AnalyzerDownloadEnds(_)
AnalyzerDownloadEnds(att) ==
    IF att >= MAX_RETRIES THEN {[ret |-> "None", msg |-> "-"]}
    ELSE UNION {LET r == AnalyzerAttemptResult(att, ans)
                IN IF r.kind = "continue" THEN AnalyzerDownloadEnds(att + 1)
                   ELSE {[ret |-> r.ret, msg |-> r.msg]} :
                    ans \in AnalyzerGetAnswers}

----------------------------------------------------------------------------
\* The row loops: analyze_qr_codes.process_excel, qr_processor.process_excel,
\* process_all_images and QRCodeProcessor.process_excel (process_qr_codes).
\* One action is one iteration of the loop, with everything it calls.

Scripts == {"analyze_qr_codes", "qr_processor", "process_all_images", "process_qr_codes"}

TEMP_SAVE_INTERVAL == 10
CONFIG_MAX_RETRIES == 2
CHECKPOINT_ROWS == 50

\* An empty cell as the script's reader yields it: NaN from pandas, None from
\* openpyxl.
EmptyCell(s) == IF s = "process_qr_codes" THEN NoneValue ELSE NaNValue

\* The url cells of the model.
UrlCells(s) ==
    {EmptyCell(s), StrValue(<<>>), StrValue(<<" ">>), StrValue(HttpScheme \o <<"x">>)}

\* pd.isna(v)
IsNa(v) == v.type = "NoneType" \/ v.type = "float"

\* str(v)
PyStr(v) == v.chars

\* requests.get(url) can answer with a response: requests raises
\* MissingSchema (a RequestException) for a url without a scheme.
RequestsGetCanAnswer(url) ==
    LET u == LStrip(PyStr(url))
    IN StartsWith(u, HttpScheme) \/ StartsWith(u, HttpsScheme)

\* The lists analyze_image returns to the row loop.
AnalyzeImageReturns == {<<>>, <<"A">>, <<"A", "B">>}

\* '" QR codes found" in result_text'
HasQrCodesFound(text) == text \in {ToString(n) \o " QR codes found" : n \in 2..9}

\* What detect_and_decode_qr returns: None ("") or a non-empty payload.
DetectAndDecodeReturns == {"", "A", "B"}

\* An optional string of QRCodeProcessor: None, or a sequence of characters.
NoStr == [some |-> FALSE, chars |-> <<>>]
SomeStr(chars) == [some |-> TRUE, chars |-> chars]
StrTruthy(o) == o.some /\ o.chars # <<>>

\* What QRCodeProcessor.decode_qr_code returns:
\* (qr_detected, decoded_data, extracted_code).
DecodeQrCodeReturns ==
    { [qr_detected |-> FALSE, decoded_data |-> NoStr, extracted_code |-> NoStr],
      [qr_detected |-> TRUE, decoded_data |-> NoStr, extracted_code |-> NoStr],
      [qr_detected |-> TRUE, decoded_data |-> SomeStr(<<"A">>), extracted_code |-> NoStr],
      [qr_detected |-> TRUE, decoded_data |-> SomeStr([i \in 1..51 |-> "x"]),
       extracted_code |-> NoStr],
      [qr_detected |-> TRUE,
       decoded_data |-> SomeStr(<<"i", "d", ":", "A", "B", "C", "1", "2", "3", "4", "5", "6", "7">>),
       extracted_code |-> SomeStr(<<"A", "B", "C", "1", "2", "3", "4", "5", "6", "7">>)] }

\* Mutant of Prefix: the slice is one character short.
PrefixOneShort(chars, n) == SubSeq(chars, 1, IF Len(chars) < n - 1 THEN Len(chars) ELSE n - 1)

\* s[:n]
Prefix(chars, n) == SubSeq(chars, 1, IF Len(chars) < n THEN Len(chars) ELSE n)

\* The result cells of a row before the loop reaches it.
InitialCells(s) ==
    CASE s = "analyze_qr_codes" -> [QR_CODE |-> ""]
      [] s = "process_qr_codes" -> [written |-> FALSE, sticker |-> FALSE, qr_code |-> <<>>]
      [] OTHER -> [QR_CODE |-> "", STICKER |-> FALSE]

InitialResults(s, n) ==
    CASE s = "analyze_qr_codes" ->
             [total_processed |-> 0, qr_codes_found |-> 0, multiple_qr_found |-> 0,
              not_found |-> 0, errors |-> 0, corrupted_images |-> 0]
      [] s = "process_qr_codes" ->
             [total |-> n, successful |-> 0, qr_found |-> 0, codes_extracted |-> 0,
              errors |-> 0, error_details |-> <<>>]
      [] OTHER -> [unused |-> TRUE]

InitialStats(s, n) ==
    CASE s = "qr_processor" ->
             [total |-> n, qr_found |-> 0, no_qr |-> 0, errors |-> 0, skipped |-> 0]
      [] s = "process_all_images" ->
             [total |-> n, processed |-> 0, qr_found |-> 0, no_qr |-> 0, errors |-> 0,
              skipped |-> 0]
      [] OTHER -> [unused |-> TRUE]

NoFile == [exists |-> FALSE, rows |-> <<>>]
FileOf(cells) == [exists |-> TRUE, rows |-> cells]

\* No row loop is running.
RIdle ==
    /\ script = "-"
    /\ sheet = <<>>
    /\ idx = 0
    /\ row_pc = "idle"
    /\ df = <<>>
    /\ results = [unused |-> TRUE]
    /\ stats = [unused |-> TRUE]
    /\ processing_log = <<>>
    /\ successful_qr_codes = <<>>
    /\ failed_images = <<>>
    /\ out_file = NoFile
    /\ fetch_calls = 0
    /\ decode_calls = 0
    /\ outcomes = <<>>
    /\ saves = <<>>
    /\ input_file = "-"
    /\ exit_status = <<>>
    /\ cell_writes = <<>>

\* What reading the input file gives: a sheet with a url column, a sheet
\* without one, or an exception.
InputFiles == {"ok", "no_url_column", "unreadable"}

\* A write of the whole output file: after how many completed rows it was
\* tried, whether it is a checkpoint or the final save, and whether it
\* succeeded.
SaveEntry(k, kind, ok) == [after |-> k, kind |-> kind, ok |-> ok]

\* The script has been started on an input file: the objects are
\* constructed, nothing has been read.
RStart(sheets) ==
    /\ input_file \in InputFiles
    /\ sheet \in (IF input_file = "ok" THEN sheets ELSE {<<>>})
    /\ idx = 0
    /\ row_pc = "start"
    /\ df = <<>>
    /\ results = InitialResults(script, 0)
    /\ stats = [unused |-> TRUE]
    /\ saves = <<>>
    /\ exit_status = <<>>
    /\ cell_writes = <<>>
    /\ processing_log = <<>>
    /\ successful_qr_codes = <<>>
    /\ failed_images = <<>>
    /\ out_file = NoFile
    /\ fetch_calls = 0
    /\ decode_calls = 0
    /\ outcomes = <<>>

\* A run of one of the four scripts on a sheet of at most MaxRows rows.
RInit ==
    /\ script \in Scripts
    /\ RStart(UNION {[1..n -> UrlCells(script)] : n \in 0..MaxRows})

\* The scripts that write the output file during the loop, and after how
\* many rows each does.
CheckpointScripts == {"analyze_qr_codes", "process_qr_codes"}
CheckpointInterval(s) == IF s = "analyze_qr_codes" THEN TEMP_SAVE_INTERVAL ELSE CHECKPOINT_ROWS

\* Sheets long enough for a checkpoint: from CheckpointInterval(s) rows on,
\* every cell a url but for at most one empty cell.
LongSheets(s) ==
    LET url == StrValue(HttpScheme \o <<"x">>)
        lengths == CheckpointInterval(s)..(CheckpointInterval(s) + MaxRows)
    IN UNION {{[i \in 1..n |-> IF i = e THEN EmptyCell(s) ELSE url] : e \in 0..n} : n \in lengths}

\* A run of a script with checkpoints on a long sheet.
RLongInit ==
    /\ script \in CheckpointScripts
    /\ RStart(LongSheets(script))

\* Mutant of SetCells: the assignment also resets the row before.
SetCellsAndRowBefore(k, value) ==
    /\ df' = [i \in 1..Len(df) |-> IF i = k THEN value
                                    ELSE IF i = k - 1 THEN InitialCells(script)
                                    ELSE df[i]]
    /\ cell_writes' = [cell_writes EXCEPT ![k] = @ + 1]

\* "df.at[idx, column] = value" (ws.cell(...).value = value in
\* process_qr_codes) for the result cells of row k.
SetCells(k, value) ==
    /\ df' = [df EXCEPT ![k] = value]
    /\ cell_writes' = [cell_writes EXCEPT ![k] = @ + 1]

\* Mutant of CountError: the increment is forgotten.
CountErrorForgotten(counters) == counters

\* "self.results['errors'] += 1" / "stats['errors'] += 1"
CountError(counters) == [counters EXCEPT !.errors = @ + 1]

\* The loop of script s is at a row.
AtRow(s) == script = s /\ row_pc = "loop" /\ idx < Len(sheet)

\* ---- analyze_qr_codes.process_excel ----

\* "if pd.isna(url) or not url"
AzUrlMissing(url) == IsNa(url) \/ ~Truthy(url)

\* Lines 279-284: the intermediate save after the k-th row is tried when k
\* is a multiple of TEMP_SAVE_INTERVAL; a failure is printed and the loop
\* goes on.
AzIntermediateSave(k, cells) ==
    IF k % TEMP_SAVE_INTERVAL = 0
    THEN \/ /\ out_file' = FileOf(cells)
            /\ saves' = Append(saves, SaveEntry(k, "checkpoint", TRUE))
         \/ /\ out_file' = out_file
            /\ saves' = Append(saves, SaveEntry(k, "checkpoint", FALSE))
    ELSE out_file' = out_file /\ saves' = saves

\* Lines 216-236: the input file is read and the QR_CODE column prepared; a
\* file that cannot be read or has no 'url' column is reported and
\* process_excel returns.
AzLoad ==
    /\ script = "analyze_qr_codes"
    /\ row_pc = "start"
    /\ IF input_file = "ok"
       THEN /\ df' = [i \in 1..Len(sheet) |-> InitialCells(script)]
            /\ cell_writes' = [i \in 1..Len(sheet) |-> 0]
            /\ row_pc' = "loop"
       ELSE /\ UNCHANGED <<df, cell_writes>>
            /\ row_pc' = "load_failed"
    /\ UNCHANGED <<script, sheet, idx, results, stats, processing_log, successful_qr_codes,
                   failed_images, out_file, fetch_calls, decode_calls, outcomes, saves,
                   input_file, exit_status, error_log>>
    /\ UNCHANGED notR

\* Lines 245-248: the row has no url; "continue" skips the rest of the body.
AzRowMissingUrl ==
    /\ AtRow("analyze_qr_codes")
    /\ AzUrlMissing(sheet[idx + 1])
    /\ SetCells(idx + 1, [QR_CODE |-> "ERROR: Missing URL"])
    /\ results' = [results EXCEPT !.errors = @ + 1]
    /\ outcomes' = Append(outcomes, "skipped")
    /\ idx' = idx + 1
    /\ UNCHANGED <<saves, input_file, exit_status, script, sheet, row_pc, stats, processing_log, successful_qr_codes,
                   failed_images, out_file, fetch_calls, decode_calls, error_log>>
    /\ UNCHANGED notR

\* Lines 251-255, 277-284: download_image returned None.
AzRowDownloadFailed ==
    /\ AtRow("analyze_qr_codes")
    /\ ~AzUrlMissing(sheet[idx + 1])
    /\ \E e \in AnalyzerDownloadEnds(0) :
           /\ e.ret = "None"
           /\ error_log' = (IF e.msg = "-" THEN error_log
                            ELSE Append(error_log, LogEntry(idx + 2, sheet[idx + 1], e.msg)))
    /\ SetCells(idx + 1, [QR_CODE |-> "ERROR: Download failed"])
    /\ results' = [CountError(results) EXCEPT !.total_processed = @ + 1]
    /\ AzIntermediateSave(idx + 1, df')
    /\ fetch_calls' = fetch_calls + 1
    /\ outcomes' = Append(outcomes, "download_failed")
    /\ idx' = idx + 1
    /\ UNCHANGED <<input_file, exit_status, script, sheet, row_pc, stats, processing_log, successful_qr_codes,
                   failed_images, decode_calls>>
    /\ UNCHANGED notR

\* Lines 264-270: the counters a result text moves.
AzCount(res, text) ==
    IF text = "NOT_FOUND" THEN [res EXCEPT !.not_found = @ + 1]
    ELSE IF HasQrCodesFound(text)
    THEN [res EXCEPT !.qr_codes_found = @ + 1, !.multiple_qr_found = @ + 1]
    ELSE [res EXCEPT !.qr_codes_found = @ + 1]

\* Lines 256-270, 277-284: the image was downloaded and analysed.
AzRowAnalyzed ==
    /\ AtRow("analyze_qr_codes")
    /\ ~AzUrlMissing(sheet[idx + 1])
    /\ RequestsGetCanAnswer(sheet[idx + 1])
    /\ \E e \in AnalyzerDownloadEnds(0) : e.ret = "Image"
    /\ \E qr_data_list \in AnalyzeImageReturns :
           LET text == FormatQrResult(qr_data_list)
           IN /\ outcomes' = Append(outcomes, IF qr_data_list = <<>> THEN "not_found" ELSE "found")
              /\ SetCells(idx + 1, [QR_CODE |-> text])
              /\ results' = [AzCount(results, text) EXCEPT !.total_processed = @ + 1]
    /\ AzIntermediateSave(idx + 1, df')
    /\ fetch_calls' = fetch_calls + 1
    /\ decode_calls' = decode_calls + 1
    /\ idx' = idx + 1
    /\ UNCHANGED <<input_file, exit_status, script, sheet, row_pc, stats, processing_log, successful_qr_codes,
                   failed_images, error_log>>
    /\ UNCHANGED notR

\* Lines 272-275, 277-284: analyze_image or format_qr_result raised.
AzRowAnalysisFailed ==
    /\ AtRow("analyze_qr_codes")
    /\ ~AzUrlMissing(sheet[idx + 1])
    /\ RequestsGetCanAnswer(sheet[idx + 1])
    /\ \E e \in AnalyzerDownloadEnds(0) : e.ret = "Image"
    /\ SetCells(idx + 1, [QR_CODE |-> "ERROR: Analysis failed"])
    /\ error_log' = Append(error_log, LogEntry(idx + 2, sheet[idx + 1], "Analysis exception"))
    /\ results' = [CountError(results) EXCEPT !.total_processed = @ + 1]
    /\ AzIntermediateSave(idx + 1, df')
    /\ fetch_calls' = fetch_calls + 1
    /\ decode_calls' = decode_calls + 1
    /\ outcomes' = Append(outcomes, "exception")
    /\ idx' = idx + 1
    /\ UNCHANGED <<input_file, exit_status, script, sheet, row_pc, stats, processing_log, successful_qr_codes,
                   failed_images>>
    /\ UNCHANGED notR

\* Lines 286-302: the final save, the error log file and the summary. When
\* the save fails the function returns before the summary; when the error
\* log file cannot be written the exception leaves process_excel.
AzFinish ==
    /\ script = "analyze_qr_codes"
    /\ row_pc = "loop"
    /\ idx = Len(sheet)
    /\ \/ /\ out_file' = FileOf(df)
          /\ saves' = Append(saves, SaveEntry(idx, "final", TRUE))
          /\ row_pc' = "summary_printed"
       \/ /\ out_file' = FileOf(df)
          /\ saves' = Append(saves, SaveEntry(idx, "final", TRUE))
          /\ error_log # <<>>
          /\ row_pc' = "raised"
       \/ /\ out_file' = out_file
          /\ saves' = Append(saves, SaveEntry(idx, "final", FALSE))
          /\ row_pc' = "save_failed"
    /\ UNCHANGED <<cell_writes, input_file, exit_status, script, sheet, idx, outcomes, df, results, stats, processing_log,
                   successful_qr_codes, failed_images, fetch_calls, decode_calls, error_log>>
    /\ UNCHANGED notR

\* ---- qr_processor.process_excel ----

\* Mutant of QrDataFound: whatever detect_and_decode_qr returned counts as a
\* QR code.
QrDataFoundAlways(qr_data) == TRUE

\* "if qr_data:"
QrDataFound(qr_data) == qr_data # ""

\* "if pd.isna(url) or not str(url).strip()"
StrippedUrlEmpty(url) == IsNa(url) \/ Strip(PyStr(url)) = <<>>

\* Lines 54-81: load_excel, the check of the 'url' column, the reset of the
\* two result columns and the counters. An unreadable file and a missing
\* column raise; the handler of lines 155-158 logs and re-raises.
QpLoad ==
    /\ script = "qr_processor"
    /\ row_pc = "start"
    /\ IF input_file = "ok"
       THEN /\ df' = [i \in 1..Len(sheet) |-> InitialCells(script)]
            /\ cell_writes' = [i \in 1..Len(sheet) |-> 0]
            /\ stats' = InitialStats(script, Len(sheet))
            /\ results' = results
            /\ row_pc' = "loop"
       ELSE /\ UNCHANGED <<df, results, stats, cell_writes>>
            /\ row_pc' = "raised"
    /\ UNCHANGED <<script, sheet, idx,  processing_log, successful_qr_codes,
                   failed_images, out_file, fetch_calls, decode_calls, outcomes, saves,
                   input_file, exit_status, error_log>>
    /\ UNCHANGED notR

\* Lines 88-91: the row is skipped.
QpRowSkipped ==
    /\ AtRow("qr_processor")
    /\ StrippedUrlEmpty(sheet[idx + 1])
    /\ stats' = [stats EXCEPT !.skipped = @ + 1]
    /\ outcomes' = Append(outcomes, "skipped")
    /\ idx' = idx + 1
    /\ UNCHANGED <<cell_writes, saves, input_file, exit_status, script, sheet, row_pc, df, results, processing_log, successful_qr_codes,
                   failed_images, out_file, fetch_calls, decode_calls, error_log>>
    /\ UNCHANGED notR

\* Lines 93-106: download_image returned None.
QpRowDownloadFailed ==
    /\ AtRow("qr_processor")
    /\ ~StrippedUrlEmpty(sheet[idx + 1])
    /\ "None" \in DownloadImageReturns(StrValue(Strip(PyStr(sheet[idx + 1]))), CONFIG_MAX_RETRIES)
    /\ SetCells(idx + 1, [QR_CODE |-> "", STICKER |-> FALSE])
    /\ stats' = CountError(stats)
    /\ fetch_calls' = fetch_calls + 1
    /\ outcomes' = Append(outcomes, "download_failed")
    /\ idx' = idx + 1
    /\ UNCHANGED <<saves, input_file, exit_status, script, sheet, row_pc, results, processing_log, successful_qr_codes,
                   failed_images, out_file, decode_calls, error_log>>
    /\ UNCHANGED notR

\* Lines 108-125: the image was downloaded and detect_and_decode_qr returned.
QpRowDetected ==
    /\ AtRow("qr_processor")
    /\ ~StrippedUrlEmpty(sheet[idx + 1])
    /\ "Image" \in DownloadImageReturns(StrValue(Strip(PyStr(sheet[idx + 1]))), CONFIG_MAX_RETRIES)
    /\ \E qr_data \in DetectAndDecodeReturns :
           IF QrDataFound(qr_data)
           THEN /\ outcomes' = Append(outcomes, "found")
                /\ SetCells(idx + 1, [QR_CODE |-> qr_data, STICKER |-> TRUE])
                /\ stats' = [stats EXCEPT !.qr_found = @ + 1]
           ELSE /\ outcomes' = Append(outcomes, "not_found")
                /\ SetCells(idx + 1, [QR_CODE |-> "", STICKER |-> FALSE])
                /\ stats' = [stats EXCEPT !.no_qr = @ + 1]
    /\ fetch_calls' = fetch_calls + 1
    /\ decode_calls' = decode_calls + 1
    /\ idx' = idx + 1
    /\ UNCHANGED <<saves, input_file, exit_status, script, sheet, row_pc, results, processing_log, successful_qr_codes,
                   failed_images, out_file, error_log>>
    /\ UNCHANGED notR

\* Lines 127-131: something in the try block raised after the download
\* (download_image and detect_and_decode_qr catch their own exceptions).
QpRowException ==
    /\ AtRow("qr_processor")
    /\ ~StrippedUrlEmpty(sheet[idx + 1])
    /\ "Image" \in DownloadImageReturns(StrValue(Strip(PyStr(sheet[idx + 1]))), CONFIG_MAX_RETRIES)
    /\ SetCells(idx + 1, [QR_CODE |-> "", STICKER |-> FALSE])
    /\ stats' = CountError(stats)
    /\ fetch_calls' = fetch_calls + 1
    /\ decode_calls' = decode_calls + 1
    /\ outcomes' = Append(outcomes, "exception")
    /\ idx' = idx + 1
    /\ UNCHANGED <<saves, input_file, exit_status, script, sheet, row_pc, results, processing_log, successful_qr_codes,
                   failed_images, out_file, error_log>>
    /\ UNCHANGED notR

\* Lines 133-158: save_excel and the summary; a failing save is re-raised.
QpFinish ==
    /\ script = "qr_processor"
    /\ row_pc = "loop"
    /\ idx = Len(sheet)
    /\ \/ /\ out_file' = FileOf(df)
          /\ saves' = Append(saves, SaveEntry(idx, "final", TRUE))
          /\ row_pc' = "summary_printed"
       \/ /\ out_file' = out_file
          /\ saves' = Append(saves, SaveEntry(idx, "final", FALSE))
          /\ row_pc' = "raised"
    /\ UNCHANGED <<cell_writes, input_file, exit_status, script, sheet, idx, outcomes, df, results, stats, processing_log,
                   successful_qr_codes, failed_images, fetch_calls, decode_calls, error_log>>
    /\ UNCHANGED notR

\* ---- process_all_images ----

\* Lines 56-80: load_excel, the check of the url column, the reset of the
\* two result columns and the counters. An unreadable file and a missing
\* column raise; the handler of lines 186-191 logs and re-raises.
PaLoad ==
    /\ script = "process_all_images"
    /\ row_pc = "start"
    /\ IF input_file = "ok"
       THEN /\ df' = [i \in 1..Len(sheet) |-> InitialCells(script)]
            /\ cell_writes' = [i \in 1..Len(sheet) |-> 0]
            /\ stats' = InitialStats(script, Len(sheet))
            /\ results' = results
            /\ row_pc' = "loop"
       ELSE /\ UNCHANGED <<df, results, stats, cell_writes>>
            /\ row_pc' = "raised"
    /\ UNCHANGED <<script, sheet, idx,  processing_log, successful_qr_codes,
                   failed_images, out_file, fetch_calls, decode_calls, outcomes, saves,
                   input_file, exit_status, error_log>>
    /\ UNCHANGED notR

\* Lines 95-103: the row is skipped.
PaRowSkipped ==
    /\ AtRow("process_all_images")
    /\ StrippedUrlEmpty(sheet[idx + 1])
    /\ stats' = [stats EXCEPT !.skipped = @ + 1]
    /\ failed_images' = Append(failed_images, idx + 1)
    /\ outcomes' = Append(outcomes, "skipped")
    /\ idx' = idx + 1
    /\ UNCHANGED <<cell_writes, saves, input_file, exit_status, script, sheet, row_pc, df, results, processing_log, successful_qr_codes,
                   out_file, fetch_calls, decode_calls, error_log>>
    /\ UNCHANGED notR

\* Lines 105-130: download_image returned None.
PaRowDownloadFailed ==
    /\ AtRow("process_all_images")
    /\ ~StrippedUrlEmpty(sheet[idx + 1])
    /\ "None" \in DownloadImageReturns(StrValue(Strip(PyStr(sheet[idx + 1]))), CONFIG_MAX_RETRIES)
    /\ SetCells(idx + 1, [QR_CODE |-> "", STICKER |-> FALSE])
    /\ stats' = CountError(stats)
    /\ failed_images' = Append(failed_images, idx + 1)
    /\ fetch_calls' = fetch_calls + 1
    /\ outcomes' = Append(outcomes, "download_failed")
    /\ idx' = idx + 1
    /\ UNCHANGED <<saves, input_file, exit_status, script, sheet, row_pc, results, processing_log, successful_qr_codes,
                   out_file, decode_calls, error_log>>
    /\ UNCHANGED notR

\* Lines 132-160: the image was downloaded and detect_and_decode_qr returned.
PaRowDetected ==
    /\ AtRow("process_all_images")
    /\ ~StrippedUrlEmpty(sheet[idx + 1])
    /\ "Image" \in DownloadImageReturns(StrValue(Strip(PyStr(sheet[idx + 1]))), CONFIG_MAX_RETRIES)
    /\ \E qr_data \in DetectAndDecodeReturns :
           IF QrDataFound(qr_data)
           THEN /\ outcomes' = Append(outcomes, "found")
                /\ SetCells(idx + 1, [QR_CODE |-> qr_data, STICKER |-> TRUE])
                /\ stats' = [stats EXCEPT !.qr_found = @ + 1, !.processed = @ + 1]
                /\ successful_qr_codes' = Append(successful_qr_codes, idx + 1)
                /\ UNCHANGED failed_images
           ELSE /\ outcomes' = Append(outcomes, "not_found")
                /\ SetCells(idx + 1, [QR_CODE |-> "", STICKER |-> FALSE])
                /\ stats' = [stats EXCEPT !.no_qr = @ + 1, !.processed = @ + 1]
                /\ failed_images' = Append(failed_images, idx + 1)
                /\ UNCHANGED successful_qr_codes
    /\ fetch_calls' = fetch_calls + 1
    /\ decode_calls' = decode_calls + 1
    /\ idx' = idx + 1
    /\ UNCHANGED <<saves, input_file, exit_status, script, sheet, row_pc, results, processing_log, out_file, error_log>>
    /\ UNCHANGED notR

\* Lines 162-173: something in the try block raised after the download.
PaRowException ==
    /\ AtRow("process_all_images")
    /\ ~StrippedUrlEmpty(sheet[idx + 1])
    /\ "Image" \in DownloadImageReturns(StrValue(Strip(PyStr(sheet[idx + 1]))), CONFIG_MAX_RETRIES)
    /\ SetCells(idx + 1, [QR_CODE |-> "", STICKER |-> FALSE])
    /\ stats' = CountError(stats)
    /\ failed_images' = Append(failed_images, idx + 1)
    /\ fetch_calls' = fetch_calls + 1
    /\ decode_calls' = decode_calls + 1
    /\ outcomes' = Append(outcomes, "exception")
    /\ idx' = idx + 1
    /\ UNCHANGED <<saves, input_file, exit_status, script, sheet, row_pc, results, processing_log, successful_qr_codes,
                   out_file, error_log>>
    /\ UNCHANGED notR

\* Lines 175-191: save_excel and the reports; a failing save is re-raised.
PaFinish ==
    /\ script = "process_all_images"
    /\ row_pc = "loop"
    /\ idx = Len(sheet)
    /\ \/ /\ out_file' = FileOf(df)
          /\ saves' = Append(saves, SaveEntry(idx, "final", TRUE))
          /\ row_pc' = "summary_printed"
       \/ /\ out_file' = out_file
          /\ saves' = Append(saves, SaveEntry(idx, "final", FALSE))
          /\ row_pc' = "raised"
    /\ UNCHANGED <<cell_writes, input_file, exit_status, script, sheet, idx, outcomes, df, results, stats, processing_log,
                   successful_qr_codes, failed_images, fetch_calls, decode_calls, error_log>>
    /\ UNCHANGED notR

\* ---- QRCodeProcessor.process_excel (process_qr_codes) ----

\* Lines 198-252: load_workbook, the search of the url column, the output
\* columns and results['total']. An unreadable workbook and a sheet without
\* a url column raise out of process_excel.
PqLoad ==
    /\ script = "process_qr_codes"
    /\ row_pc = "start"
    /\ IF input_file = "ok"
       THEN /\ df' = [i \in 1..Len(sheet) |-> InitialCells(script)]
            /\ cell_writes' = [i \in 1..Len(sheet) |-> 0]
            /\ results' = [results EXCEPT !.total = Len(sheet)]
            /\ stats' = stats
            /\ row_pc' = "loop"
       ELSE /\ UNCHANGED <<df, results, stats, cell_writes>>
            /\ row_pc' = "raised"
    /\ UNCHANGED <<script, sheet, idx,  processing_log, successful_qr_codes,
                   failed_images, out_file, fetch_calls, decode_calls, outcomes, saves,
                   input_file, exit_status, error_log>>
    /\ UNCHANGED notR

\* Lines 290-293: the workbook is saved after a row whose number is a
\* multiple of CHECKPOINT_ROWS; a failing save is not caught and ends the run.
PqCheckpoint(row_num, cells) ==
    IF row_num % CHECKPOINT_ROWS = 0
    THEN \/ /\ out_file' = FileOf(cells)
            /\ saves' = Append(saves, SaveEntry(row_num - 1, "checkpoint", TRUE))
            /\ row_pc' = row_pc
         \/ /\ out_file' = out_file
            /\ saves' = Append(saves, SaveEntry(row_num - 1, "checkpoint", FALSE))
            /\ row_pc' = "raised"
    ELSE out_file' = out_file /\ saves' = saves /\ row_pc' = row_pc

\* Lines 263-265: the cell is empty; "continue" skips the rest of the body.
PqRowNoUrl ==
    /\ AtRow("process_qr_codes")
    /\ ~Truthy(sheet[idx + 1])
    /\ outcomes' = Append(outcomes, "skipped")
    /\ idx' = idx + 1
    /\ UNCHANGED <<cell_writes, saves, input_file, exit_status, script, sheet, row_pc, df, results, stats, processing_log,
                   successful_qr_codes, failed_images, out_file, fetch_calls, decode_calls,
                   error_log>>
    /\ UNCHANGED notR

\* process_image (lines 166-183): the value stored for what decode_qr_code
\* returned.
PqStoredCode(d) ==
    IF StrTruthy(d.extracted_code) THEN d.extracted_code.chars
    ELSE IF StrTruthy(d.decoded_data) THEN Prefix(d.decoded_data.chars, 50)
    ELSE <<>>

\* Mutant of CountSuccess: "self.results['successful'] += 1" is forgotten.
CountSuccessForgotten(counters, loc) ==
    [counters EXCEPT !.qr_found = IF loc.qr_detected THEN @ + 1 ELSE @,
                     !.codes_extracted = IF StrTruthy(loc.extracted_code) THEN @ + 1 ELSE @]

\* process_image, lines 178-183: the counters after decode_qr_code returned
\* loc.
CountSuccess(counters, loc) ==
    [counters EXCEPT !.qr_found = IF loc.qr_detected THEN @ + 1 ELSE @,
                     !.codes_extracted = IF StrTruthy(loc.extracted_code) THEN @ + 1 ELSE @,
                     !.successful = @ + 1]

\* Lines 267-293 with process_image's try block completing.
PqRowProcessed ==
    /\ AtRow("process_qr_codes")
    /\ Truthy(sheet[idx + 1])
    /\ RequestsGetCanAnswer(sheet[idx + 1])
    /\ \E d \in DecodeQrCodeReturns :
           LET result == [row |-> idx + 2, sticker_detected |-> d.qr_detected,
                          qr_code |-> PqStoredCode(d), error |-> FALSE,
                          decoded_data |-> d.decoded_data]
           IN /\ results' = CountSuccess(results, d)
              /\ processing_log' = Append(processing_log, result)
              /\ SetCells(idx + 1, [written |-> TRUE,
                                                sticker |-> result.sticker_detected,
                                                qr_code |-> result.qr_code])
    /\ PqCheckpoint(idx + 2, df')
    /\ fetch_calls' = fetch_calls + 1
    /\ decode_calls' = decode_calls + 1
    /\ outcomes' = Append(outcomes, "processed")
    /\ idx' = idx + 1
    /\ UNCHANGED <<input_file, exit_status, script, sheet, stats, successful_qr_codes, failed_images, error_log>>
    /\ UNCHANGED notR

\* Lines 267-293 with fetch_image raising inside process_image.
PqRowError ==
    /\ AtRow("process_qr_codes")
    /\ Truthy(sheet[idx + 1])
    /\ LET result == [row |-> idx + 2, sticker_detected |-> FALSE, qr_code |-> <<>>,
                      error |-> TRUE, decoded_data |-> NoStr]
       IN /\ results' = [results EXCEPT !.errors = @ + 1,
                                        !.error_details = Append(@, idx + 2)]
          /\ processing_log' = Append(processing_log, result)
          /\ SetCells(idx + 1, [written |-> TRUE,
                                            sticker |-> result.sticker_detected,
                                            qr_code |-> result.qr_code])
    /\ PqCheckpoint(idx + 2, df')
    /\ fetch_calls' = fetch_calls + 1
    /\ outcomes' = Append(outcomes, "exception")
    /\ idx' = idx + 1
    /\ UNCHANGED <<input_file, exit_status, script, sheet, stats, successful_qr_codes, failed_images,
                   decode_calls, error_log>>
    /\ UNCHANGED notR

\* Lines 295-302: the final save; a failing save is not caught.
PqFinish ==
    /\ script = "process_qr_codes"
    /\ row_pc = "loop"
    /\ idx = Len(sheet)
    /\ \/ /\ out_file' = FileOf(df)
          /\ saves' = Append(saves, SaveEntry(idx, "final", TRUE))
          /\ row_pc' = "returned"
       \/ /\ out_file' = out_file
          /\ saves' = Append(saves, SaveEntry(idx, "final", FALSE))
          /\ row_pc' = "raised"
    /\ UNCHANGED <<cell_writes, input_file, exit_status, script, sheet, idx, outcomes, df, results, stats, processing_log,
                   successful_qr_codes, failed_images, fetch_calls, decode_calls, error_log>>
    /\ UNCHANGED notR

\* ---- the entry points ----

\* KeyboardInterrupt is raised while the loop runs. It is not an Exception,
\* so no handler of the loop bodies catches it and it leaves the function.
Interrupt ==
    /\ row_pc = "loop"
    /\ row_pc' = "interrupted"
    /\ UNCHANGED <<cell_writes, script, sheet, idx, df, results, stats, processing_log,
                   successful_qr_codes, failed_images, out_file, fetch_calls, decode_calls,
                   outcomes, saves, input_file, exit_status, error_log>>
    /\ UNCHANGED notR

\* The status with which the interpreter ends on a KeyboardInterrupt nobody
\* handles: 1, or 130 where it ends through the signal.
UnhandledInterruptStatus == {<<1>>, <<130>>}

\* analyze_qr_codes.main (lines 323-337): process_excel returned, or an
\* exception or a KeyboardInterrupt reached main.
AzMain ==
    /\ script = "analyze_qr_codes"
    /\ exit_status = <<>>
    /\ row_pc \in {"load_failed", "save_failed", "summary_printed", "raised", "interrupted"}
    /\ exit_status' = (IF row_pc \in {"raised", "interrupted"} THEN <<1>> ELSE <<0>>)
    /\ UNCHANGED <<cell_writes, script, sheet, idx, df, results, stats, processing_log,
                   successful_qr_codes, failed_images, out_file, fetch_calls, decode_calls,
                   outcomes, saves, input_file, row_pc, error_log>>
    /\ UNCHANGED notR

\* qr_processor, 'if __name__ == "__main__": process_excel()': nothing is
\* caught at the top level.
QpMain ==
    /\ script = "qr_processor"
    /\ exit_status = <<>>
    /\ row_pc \in {"summary_printed", "raised", "interrupted"}
    /\ exit_status' \in (CASE row_pc = "summary_printed" -> {<<0>>}
                           [] row_pc = "raised" -> {<<1>>}
                           [] OTHER -> UnhandledInterruptStatus)
    /\ UNCHANGED <<cell_writes, script, sheet, idx, df, results, stats, processing_log,
                   successful_qr_codes, failed_images, out_file, fetch_calls, decode_calls,
                   outcomes, saves, input_file, row_pc, error_log>>
    /\ UNCHANGED notR

\* process_all_images, lines 319-326: sys.exit(1) on KeyboardInterrupt and on
\* any exception.
PaMain ==
    /\ script = "process_all_images"
    /\ exit_status = <<>>
    /\ row_pc \in {"summary_printed", "raised", "interrupted"}
    /\ exit_status' = (IF row_pc = "summary_printed" THEN <<0>> ELSE <<1>>)
    /\ UNCHANGED <<cell_writes, script, sheet, idx, df, results, stats, processing_log,
                   successful_qr_codes, failed_images, out_file, fetch_calls, decode_calls,
                   outcomes, saves, input_file, row_pc, error_log>>
    /\ UNCHANGED notR

\* process_qr_codes.main (lines 410-438) under exit(main()): generate_report
\* runs after process_excel and can raise too; an Exception gives 1, a
\* KeyboardInterrupt is not caught.
PqMain ==
    /\ script = "process_qr_codes"
    /\ exit_status = <<>>
    /\ row_pc \in {"returned", "raised", "interrupted"}
    /\ \/ row_pc = "returned" /\ row_pc' = row_pc /\ exit_status' = <<0>>
       \/ row_pc = "returned" /\ row_pc' = "raised" /\ exit_status' = <<1>>
       \/ row_pc = "raised" /\ row_pc' = row_pc /\ exit_status' = <<1>>
       \/ /\ row_pc = "interrupted"
          /\ row_pc' = row_pc
          /\ exit_status' \in UnhandledInterruptStatus
    /\ UNCHANGED <<cell_writes, script, sheet, idx, df, results, stats, processing_log,
                   successful_qr_codes, failed_images, out_file, fetch_calls, decode_calls,
                   outcomes, saves, input_file,  error_log>>
    /\ UNCHANGED notR

\* ---- runs on long sheets ----

\* The row the loop is at is one after which the script's checkpoint is due.
AtCheckpointRow ==
    IF script = "analyze_qr_codes" THEN (idx + 1) % TEMP_SAVE_INTERVAL = 0
    ELSE (idx + 2) % CHECKPOINT_ROWS = 0

\* The branches with a choice of results are followed at the rows where a
\* checkpoint is due; the other rows take the branches without one.
LongRowDownloadFailed == AtCheckpointRow /\ AzRowDownloadFailed
LongRowAnalyzed == AtCheckpointRow /\ AzRowAnalyzed
LongRowProcessed == AtCheckpointRow /\ PqRowProcessed

RLongNext ==
    \/ AzLoad
    \/ AzRowMissingUrl
    \/ AzRowAnalysisFailed
    \/ LongRowDownloadFailed
    \/ LongRowAnalyzed
    \/ AzFinish
    \/ PqLoad
    \/ PqRowNoUrl
    \/ PqRowError
    \/ LongRowProcessed
    \/ PqFinish

RNext ==
    \/ AzLoad
    \/ QpLoad
    \/ PaLoad
    \/ PqLoad
    \/ Interrupt
    \/ AzMain
    \/ QpMain
    \/ PaMain
    \/ PqMain
    \/ AzRowMissingUrl
    \/ AzRowDownloadFailed
    \/ AzRowAnalyzed
    \/ AzRowAnalysisFailed
    \/ AzFinish
    \/ QpRowSkipped
    \/ QpRowDownloadFailed
    \/ QpRowDetected
    \/ QpRowException
    \/ QpFinish
    \/ PaRowSkipped
    \/ PaRowDownloadFailed
    \/ PaRowDetected
    \/ PaRowException
    \/ PaFinish
    \/ PqRowNoUrl
    \/ PqRowProcessed
    \/ PqRowError
    \/ PqFinish

----------------------------------------------------------------------------
\* The regular expressions of QRCodeProcessor.decode_qr_code, on sequences of
\* one-character strings.

Uppers == <<"A", "B", "C", "D", "E", "F", "G", "H", "I", "J", "K", "L", "M",
            "N", "O", "P", "Q", "R", "S", "T", "U", "V", "W", "X", "Y", "Z">>
Lowers == <<"a", "b", "c", "d", "e", "f", "g", "h", "i", "j", "k", "l", "m",
            "n", "o", "p", "q", "r", "s", "t", "u", "v", "w", "x", "y", "z">>
DigitChars == {"0", "1", "2", "3", "4", "5", "6", "7", "8", "9"}

\* str.upper() and str.lower() of one character.
UpperChar(c) ==
    IF c \in Range(Lowers) THEN Uppers[CHOOSE i \in 1..Len(Lowers) : Lowers[i] = c] ELSE c
ToLower(c) ==
    IF c \in Range(Uppers) THEN Lowers[CHOOSE i \in 1..Len(Uppers) : Uppers[i] = c] ELSE c
Upper(s) == [i \in 1..Len(s) |-> UpperChar(s[i])]

\* The class [A-Z0-9].
IsUpperOrDigit(c) == c \in Range(Uppers) \cup DigitChars

\* The class [A-Z0-9], with or without re.IGNORECASE.
TokenChar(c, ignorecase) == IsUpperOrDigit(IF ignorecase THEN UpperChar(c) ELSE c)

\* \w, and \b before position k of s.
IsWordChar(c) == IsUpperOrDigit(UpperChar(c)) \/ c = "_"
WordCharAt(s, k) == k >= 1 /\ k <= Len(s) /\ IsWordChar(s[k])
Boundary(s, k) == WordCharAt(s, k - 1) # WordCharAt(s, k)

\* The least element of a non-empty set of numbers.
Least(S) == CHOOSE k \in S : \A j \in S : k <= j

\* \b[A-Z0-9]{10}\b matches at position k.
MatchTen(s, k, ignorecase) ==
    /\ k + 9 <= Len(s)
    /\ \A i \in k..(k + 9) : TokenChar(s[i], ignorecase)
    /\ Boundary(s, k)
    /\ Boundary(s, k + 10)

\* re.search(r'\b[A-Z0-9]{10}\b', s): the leftmost match, or None.
SearchTen(s, ignorecase) ==
    LET ks == {k \in 1..Len(s) : MatchTen(s, k, ignorecase)}
    IN IF ks = {} THEN NoStr ELSE SomeStr(SubSeq(s, Least(ks), Least(ks) + 9))

\* The literal word (lower case) is at position k of s, ignoring case.
LiteralAt(s, k, word) ==
    /\ k + Len(word) - 1 <= Len(s)
    /\ \A i \in 1..Len(word) : ToLower(s[k + i - 1]) = word[i]

\* [:\s]* from position m: the position after the characters it takes.
RECURSIVE SkipSeparators(_, _)
SkipSeparators(s, m) ==
    IF m <= Len(s) /\ s[m] \in ({":"} \cup Whitespace) THEN SkipSeparators(s, m + 1) ELSE m

\* The number of characters of [A-Z0-9] (ignoring case) from position m on.
RECURSIVE RunLength(_, _)
RunLength(s, m) ==
    IF m <= Len(s) /\ TokenChar(s[m], TRUE) THEN 1 + RunLength(s, m + 1) ELSE 0

\* word[:\s]*([A-Z0-9]{8,12}) with re.IGNORECASE matches at position k.
MatchLabel(s, k, word) ==
    /\ LiteralAt(s, k, word)
    /\ RunLength(s, SkipSeparators(s, k + Len(word))) >= 8

\* re.search(word[:\s]*([A-Z0-9]{8,12}), s, re.IGNORECASE): group 1 of the
\* leftmost match, or None.
SearchLabel(s, word) ==
    LET ks == {k \in 1..Len(s) : MatchLabel(s, k, word)}
    IN IF ks = {} THEN NoStr
       ELSE LET m == SkipSeparators(s, Least(ks) + Len(word))
                n == RunLength(s, m)
            IN SomeStr(SubSeq(s, m, m + (IF n > 12 THEN 12 ELSE n) - 1))

CodeLabel == <<"c", "o", "d", "e">>
IdLabel == <<"i", "d">>

\* Lines 129-144: the three patterns in order; the first that matches gives
\* match.group(1).upper().
SearchPatterns(s) ==
    LET ten == SearchTen(s, TRUE)
        code == SearchLabel(s, CodeLabel)
        id == SearchLabel(s, IdLabel)
    IN IF ten.some THEN SomeStr(Upper(ten.chars))
       ELSE IF code.some THEN SomeStr(Upper(code.chars))
       ELSE IF id.some THEN SomeStr(Upper(id.chars))
       ELSE NoStr

----------------------------------------------------------------------------
\* QRCodeProcessor.process_image on a fetched image: decode_qr_code (methods
\* 1 to 3), then the result dictionary and the counters.

Rep(c, n) == [i \in 1..n |-> c]

Token10 == <<"A", "B", "C", "1", "2", "3", "4", "5", "6", "7">>

\* The payloads of the model.
PqPayloads ==
    { <<>>,
      <<"h", "i">>,
      Rep("x", 51),
      Token10,
      <<"x", " ">> \o Token10 \o <<" ", "y">>,
      Rep("A", 11),
      Rep("a", 10),
      <<"_">> \o Token10,
      <<"i", "d", ":">> \o Rep("1", 7),
      <<"i", "d", ":">> \o Rep("1", 8),
      <<"c", "o", "d", "e", ":", " ">> \o Rep("b", 9),
      <<"c", "o", "d", "e">> \o Rep("1", 8),
      <<"C", "O", "D", "E", ":">> \o Rep("1", 13),
      <<"c", "o", "d", "e", ":">> \o Rep("1", 8) \o <<" ">> \o Token10 }

\* The symbols pyzbar reports: QR codes with any of the payloads, and
\* barcodes of another kind.
PqSymbols ==
    [type : {"QRCODE"}, data : PqPayloads]
        \cup [type : {"CODE128"}, data : {<<"h", "i">>, Token10}]

\* What pyzbar_decode(image) can do: raise, or return a list of symbols.
PqPyzbarAnswers ==
    {[backend |-> "pyzbar", raised |-> TRUE, objs |-> <<>>, data |-> <<>>, bbox |-> FALSE]}
        \cup {[backend |-> "pyzbar", raised |-> FALSE, objs |-> o, data |-> <<>>, bbox |-> FALSE] :
                  o \in BoundedSeq(PqSymbols, MaxPqSymbols)}

\* What detectAndDecode can do: raise, or return the data and the bounding
\* box (bbox TRUE: not None).
PqOpencvAnswers ==
    {[backend |-> "opencv", raised |-> TRUE, objs |-> <<>>, data |-> <<>>, bbox |-> FALSE]}
        \cup {[backend |-> "opencv", raised |-> FALSE, objs |-> <<>>, data |-> d, bbox |-> b] :
                  d \in {<<>>}, b \in BOOLEAN}
        \cup {[backend |-> "opencv", raised |-> FALSE, objs |-> <<>>, data |-> d, bbox |-> TRUE] :
                  d \in {<<"h", "i">>, Token10, Rep("a", 10), Rep("x", 51)}}

\* The locals of decode_qr_code.
Locals(detected, data, code) ==
    [qr_detected |-> detected, decoded_data |-> data, extracted_code |-> code]

\* Lines 90-97, "for obj in decoded_objects" from the i-th symbol on: the
\* first QR symbol sets decoded_data and extracted_code and ends the loop.
RECURSIVE PyzbarLoop(_, _, _)
PyzbarLoop(objs, i, loc) ==
    IF i > Len(objs) THEN loc
    ELSE IF objs[i].type = "QRCODE"
         THEN Locals(loc.qr_detected, SomeStr(objs[i].data), SearchTen(objs[i].data, FALSE))
         ELSE PyzbarLoop(objs, i + 1, loc)

\* Lines 85-99, method 1: qr_detected is set when the list is not empty.
Method1(ans, loc) ==
    IF ans.raised \/ ans.objs = <<>> THEN loc
    ELSE PyzbarLoop(ans.objs, 1, Locals(TRUE, loc.decoded_data, loc.extracted_code))

\* Lines 103-127, method 2.
Method2(ans, loc) ==
    IF ans.raised THEN loc
    ELSE IF ans.data # <<>>
    THEN Locals(TRUE, SomeStr(ans.data), SearchTen(ans.data, FALSE))
    ELSE IF ans.bbox THEN Locals(TRUE, loc.decoded_data, loc.extracted_code)
    ELSE loc

\* Lines 129-144, method 3.
Method3(loc) ==
    IF loc.qr_detected /\ ~StrTruthy(loc.extracted_code) /\ StrTruthy(loc.decoded_data)
    THEN LET found == SearchPatterns(loc.decoded_data.chars)
         IN IF found.some THEN Locals(loc.qr_detected, loc.decoded_data, found) ELSE loc
    ELSE loc

\* Lines 150-157 and 45-52: the result and the counters before anything
\* happened.
NoResult == [sticker_detected |-> FALSE, qr_code |-> <<>>, decoded_data |-> NoStr,
             error |-> FALSE]
NoCounters == [successful |-> 0, qr_found |-> 0, codes_extracted |-> 0, errors |-> 0,
               error_details |-> <<>>]

\* What processing_log keeps of a result in the model.
Logged(result) == [sticker_detected |-> result.sticker_detected, error |-> result.error]

\* Calls of process_image in one run of the decode component.
MaxImages == 2

\* process_image is not running.
PIdle ==
    /\ pq_pc = "idle"
    /\ pyzbar_available = FALSE
    /\ cv2_available = FALSE
    /\ qr_detected = FALSE
    /\ decoded_data = NoStr
    /\ extracted_code = NoStr
    /\ pq_calls = <<>>
    /\ pq_result = NoResult
    /\ pq_counters = NoCounters
    /\ pq_before = NoCounters
    /\ pq_log = <<>>

\* A QRCodeProcessor has been constructed and process_image is called for
\* the first image; each of the two libraries was imported or not.
PInit ==
    /\ pq_pc = "fetch"
    /\ pyzbar_available \in BOOLEAN
    /\ cv2_available \in BOOLEAN
    /\ qr_detected = FALSE
    /\ decoded_data = NoStr
    /\ extracted_code = NoStr
    /\ pq_calls = <<>>
    /\ pq_result = NoResult
    /\ pq_counters = NoCounters
    /\ pq_before = NoCounters
    /\ pq_log = <<>>

CurrentLocals == Locals(qr_detected, decoded_data, extracted_code)

\* decode_qr_code's locals become loc.
SetLocals(loc) ==
    /\ qr_detected' = loc.qr_detected
    /\ decoded_data' = loc.decoded_data
    /\ extracted_code' = loc.extracted_code

\* process_image, lines 159-164 and 185-194: fetch_image returns the image,
\* or raises and the handler counts the error, records it and returns the
\* result, which the caller appends to processing_log (line 274).
PqFetch ==
    /\ pq_pc = "fetch"
    /\ \/ /\ pq_pc' = "method1"
          /\ UNCHANGED <<pq_result, pq_counters, pq_log>>
       \/ /\ pq_result' = [NoResult EXCEPT !.error = TRUE]
          /\ pq_counters' = [pq_counters EXCEPT
                                 !.errors = @ + 1,
                                 !.error_details = Append(@, Len(pq_log) + 1)]
          /\ pq_log' = Append(pq_log, Logged(pq_result'))
          /\ pq_pc' = "done"
    /\ UNCHANGED <<pyzbar_available, cv2_available, qr_detected, decoded_data,
                   extracted_code, pq_calls, pq_before>>
    /\ UNCHANGED notP

\* Lines 84-99.
PqMethod1 ==
    /\ pq_pc = "method1"
    /\ IF pyzbar_available
       THEN \E ans \in PqPyzbarAnswers :
                /\ SetLocals(Method1(ans, CurrentLocals))
                /\ pq_calls' = Append(pq_calls, ans)
       ELSE UNCHANGED <<qr_detected, decoded_data, extracted_code, pq_calls>>
    /\ pq_pc' = "method2"
    /\ UNCHANGED <<pyzbar_available, cv2_available, pq_result, pq_counters, pq_before, pq_log>>
    /\ UNCHANGED notP

\* Lines 101-127.
PqMethod2 ==
    /\ pq_pc = "method2"
    /\ IF ~qr_detected /\ cv2_available
       THEN \E ans \in PqOpencvAnswers :
                /\ SetLocals(Method2(ans, CurrentLocals))
                /\ pq_calls' = Append(pq_calls, ans)
       ELSE UNCHANGED <<qr_detected, decoded_data, extracted_code, pq_calls>>
    /\ pq_pc' = "method3"
    /\ UNCHANGED <<pyzbar_available, cv2_available, pq_result, pq_counters, pq_before, pq_log>>
    /\ UNCHANGED notP

\* Lines 129-146.
PqMethod3 ==
    /\ pq_pc = "method3"
    /\ SetLocals(Method3(CurrentLocals))
    /\ pq_pc' = "store"
    /\ UNCHANGED <<pyzbar_available, cv2_available, pq_calls, pq_result, pq_counters,
                   pq_before, pq_log>>
    /\ UNCHANGED notP

\* process_image, lines 167-183 and 194, and the append of the result to
\* processing_log by the caller (process_excel, line 274).
PqStore ==
    /\ pq_pc = "store"
    /\ pq_result' = [sticker_detected |-> qr_detected,
                     qr_code |-> PqStoredCode(CurrentLocals),
                     decoded_data |-> decoded_data,
                     error |-> FALSE]
    /\ pq_counters' = CountSuccess(pq_counters, CurrentLocals)
    /\ pq_log' = Append(pq_log, Logged(pq_result'))
    /\ pq_pc' = "done"
    /\ UNCHANGED <<pyzbar_available, cv2_available, qr_detected, decoded_data,
                   extracted_code, pq_calls, pq_before>>
    /\ UNCHANGED notP

\* The caller's loop calls process_image for the next image: its locals are
\* fresh, the counters and the log are those of the object.
PqNextImage ==
    /\ pq_pc = "done"
    /\ Len(pq_log) < MaxImages
    /\ SetLocals(Locals(FALSE, NoStr, NoStr))
    /\ pq_calls' = <<>>
    /\ pq_result' = NoResult
    /\ pq_before' = pq_counters
    /\ pq_pc' = "fetch"
    /\ UNCHANGED <<pyzbar_available, cv2_available, pq_counters, pq_log>>
    /\ UNCHANGED notP

PNext ==
    \/ PqFetch
    \/ PqNextImage
    \/ PqMethod1
    \/ PqMethod2
    \/ PqMethod3
    \/ PqStore

----------------------------------------------------------------------------
\* Specifications: one per component, the other components idle.

\* analyze_image and format_qr_result on one downloaded image.
InitAnalyze == AInit /\ DIdle /\ NIdle /\ RIdle /\ PIdle
SpecAnalyze == InitAnalyze /\ [][ANext]_vars

\* The same call under the scheduling of a sequential program: a statement
\* that can run does run.
SpecAnalyzeFair == InitAnalyze /\ [][ANext]_vars /\ WF_vars(ANext)

\* One call of utils.image_downloader.download_image.
InitDownload == DInit /\ AIdle /\ NIdle /\ RIdle /\ PIdle
SpecDownload == InitDownload /\ [][DNext]_vars

\* One call of QRCodeAnalyzer.download_image.
InitAnalyzerDownload == NInit /\ AIdle /\ DIdle /\ RIdle /\ PIdle
SpecAnalyzerDownload == InitAnalyzerDownload /\ [][NNext]_vars

\* A run of the row loop of one of the four scripts.
InitRows == RInit /\ AIdle /\ DIdle /\ NIdle /\ PIdle
SpecRows == InitRows /\ [][RNext]_vars

\* A run of analyze_qr_codes or process_qr_codes on a sheet long enough for
\* a checkpoint.
InitLongRows == RLongInit /\ AIdle /\ DIdle /\ NIdle /\ PIdle
SpecLongRows == InitLongRows /\ [][RLongNext]_vars

\* QRCodeProcessor.process_image on one fetched image.
InitDecode == PInit /\ AIdle /\ DIdle /\ NIdle /\ RIdle
SpecDecode == InitDecode /\ [][PNext]_vars

----------------------------------------------------------------------------
\* C1: format_qr_result maps the deduplicated list by its length only: the
\* empty list gives "NOT_FOUND", a list of one payload gives that payload
\* verbatim, and a list of n >= 2 payloads gives "<n> QR codes found" ("2 QR
\* codes found" for two payloads, "3 QR codes found" for three).
C1_FormatByLength ==
    apc = "formatted" =>
        LET n == Len(unique_qr_data)
        IN /\ n = 0 => result_text = "NOT_FOUND"
           /\ n = 1 => result_text = unique_qr_data[1]
           /\ n = 2 => result_text = "2 QR codes found"
           /\ n = 3 => result_text = "3 QR codes found"
           /\ n >= 2 => result_text = ToString(n) \o " QR codes found"

\* Two distinct payloads were formatted as "2 QR codes found".
C1_Witness ==
    /\ apc = "formatted"
    /\ Len(unique_qr_data) = 2
    /\ unique_qr_data[1] # unique_qr_data[2]
    /\ result_text = "2 QR codes found"

\* Position of the first occurrence of x in s.
FirstIndex(s, x) == CHOOSE i \in 1..Len(s) : s[i] = x /\ \A j \in 1..(i - 1) : s[j] # x

\* C2: the list analyze_image returns holds every collected payload exactly
\* once, in the order of first occurrence, and nothing that was not collected.
C2_DedupFirstSeenOrder ==
    apc \in {"returned", "formatted"} =>
        /\ Range(unique_qr_data) = Range(all_qr_data)
        /\ \A i, j \in 1..Len(unique_qr_data) :
               i # j => unique_qr_data[i] # unique_qr_data[j]
        /\ \A i, j \in 1..Len(unique_qr_data) :
               i < j => FirstIndex(all_qr_data, unique_qr_data[i])
                            < FirstIndex(all_qr_data, unique_qr_data[j])

\* The collected payloads were ["A","B","A"] and ["A","B"] was returned.
C2_Witness ==
    /\ apc = "returned"
    /\ all_qr_data = <<"A", "B", "A">>
    /\ unique_qr_data = <<"A", "B">>

----------------------------------------------------------------------------
\* Claims about utils.image_downloader.download_image (SpecDownload).

\* The events of dl_log of one kind, in order.
GetEvents == SelectSeq(dl_log, LAMBDA e : e.ev = "GET")
SleepEvents == SelectSeq(dl_log, LAMBDA e : e.ev = "SLEEP")
OpenEvents == SelectSeq(dl_log, LAMBDA e : e.ev = "OPEN")

\* At least one request was made and every request timed out.
OnlyTimeouts == GetEvents # <<>> /\ \A i \in 1..Len(GetEvents) : GetEvents[i].out = "Timeout"

\* C3: when every attempt times out, max_retries + 1 GET requests are made,
\* a sleep follows every request but the last (max_retries sleeps, the log
\* alternates GET, SLEEP, ..., GET), and the call returns None.
C3_TimeoutAttempts ==
    (dl_pc = "returned" /\ OnlyTimeouts) =>
        /\ Len(GetEvents) = max_retries + 1
        /\ Len(SleepEvents) = max_retries
        /\ Len(dl_log) = 2 * max_retries + 1
        /\ \A i \in 1..Len(dl_log) :
               dl_log[i].ev = (IF i % 2 = 1 THEN "GET" ELSE "SLEEP")
        /\ dl_ret = "None"

\* A call with max_retries = 2 returned after three timeouts.
C3_Witness ==
    /\ dl_pc = "returned"
    /\ OnlyTimeouts
    /\ max_retries = 2
    /\ Len(GetEvents) = 3
    /\ dl_ret = "None"

\* C5 as claimed: the delay before the k-th retry is base * k, base being
\* the first delay, so successive delays increase strictly.
C5_LinearDelay ==
    /\ \A k \in 1..Len(SleepEvents) : SleepEvents[k].secs = SleepEvents[1].secs * k
    /\ \A k \in 1..(Len(SleepEvents) - 1) : SleepEvents[k].secs < SleepEvents[k + 1].secs

\* C5, amended: the delay before every retry is one second, whatever k is;
\* successive delays are equal and only their running total (k seconds after
\* the k-th retry's sleep) increases.
C5_ConstantDelay ==
    /\ \A k \in 1..Len(SleepEvents) : SleepEvents[k].secs = 1
    /\ \A i \in 1..Len(dl_log) :
           dl_log[i].ev = "SLEEP" => (i > 1 /\ dl_log[i - 1].out = "Timeout")

\* Two retries were slept for.
C5_Witness ==
    /\ Len(SleepEvents) >= 2
    /\ SleepEvents[1].secs = SleepEvents[2].secs

\* C6: a request that fails with a connection error or a non-2xx status is
\* the last thing the call does: no request, sleep or decode follows it and
\* the call has returned None.
C6_NoRetryOnRequestError ==
    \A i \in 1..Len(dl_log) :
        (dl_log[i].ev = "GET" /\ dl_log[i].out \in {"ConnectionError", "HTTPError"}) =>
            /\ i = Len(dl_log)
            /\ dl_pc = "returned"
            /\ dl_ret = "None"

\* A connection error ended a call that had retries left.
C6_Witness ==
    /\ dl_pc = "returned"
    /\ Len(dl_log) >= 3
    /\ dl_log[Len(dl_log)].out = "ConnectionError"
    /\ attempt < max_retries
    /\ dl_ret = "None"

\* The argument is empty, not a string, or does not start with http:// or
\* https:// once stripped.
BadUrlArgument(u) ==
    \/ u.type # "str"
    \/ (u.type = "str" /\ u.chars = <<>>)
    \/ /\ ~StartsWith(Strip(u.chars), HttpScheme)
       /\ ~StartsWith(Strip(u.chars), HttpsScheme)

\* C7: for such an argument the call returns None and makes no request.
C7_BadUrlNoRequest ==
    BadUrlArgument(dl_arg) =>
        /\ dl_log = <<>>
        /\ dl_pc \in {"call", "returned"}
        /\ dl_pc = "returned" => dl_ret = "None"

\* A call with a string of another scheme has returned.
C7_Witness ==
    /\ dl_pc = "returned"
    /\ dl_arg.type = "str"
    /\ dl_arg.chars # <<>>
    /\ BadUrlArgument(dl_arg)
    /\ dl_ret = "None"
    /\ dl_log = <<>>

\* C9: a 2xx response whose Content-Type (compared without regard to case)
\* does not begin with image/ is the last thing the call does: no Image.open,
\* no sleep and no further request follow it, and the call has returned None.
C9_NonImageContentType ==
    \A i \in 1..Len(dl_log) :
        (/\ dl_log[i].ev = "GET"
         /\ dl_log[i].out = "OK"
         /\ ~StartsWith(Lower(dl_log[i].ctype), ImagePrefix)) =>
            /\ i = Len(dl_log)
            /\ dl_pc = "returned"
            /\ dl_ret = "None"

\* A text/html response ended a call that had retries left.
C9_Witness ==
    /\ dl_pc = "returned"
    /\ dl_log # <<>>
    /\ dl_log[Len(dl_log)].ev = "GET"
    /\ dl_log[Len(dl_log)].out = "OK"
    /\ dl_log[Len(dl_log)].ctype = <<"t", "e", "x", "t", "/", "h", "t", "m", "l">>
    /\ attempt < max_retries
    /\ OpenEvents = <<>>
    /\ dl_ret = "None"

----------------------------------------------------------------------------
\* Claims about QRCodeAnalyzer.download_image (SpecAnalyzerDownload).

AnalyzerGetEvents == SelectSeq(an_log, LAMBDA e : e.ev = "GET")

\* C4: when every attempt times out, MAX_RETRIES + 1 GET requests are made
\* before the download is reported as failed.
C4_AnalyzerTimeoutAttempts ==
    (/\ an_pc = "returned"
     /\ \A i \in 1..Len(AnalyzerGetEvents) : AnalyzerGetEvents[i].out = "Timeout") =>
        Len(AnalyzerGetEvents) = MAX_RETRIES + 1

----------------------------------------------------------------------------
\* Claims about the row loops (SpecRows).

\* The url cell is missing (None, NaN) or the empty string.
MissingOrEmpty(cell) == cell.type \in {"NoneType", "float"} \/ (cell.type = "str" /\ cell.chars = <<>>)

\* The counters with which a script records skipped and failed rows.
SkippedPlusErrors ==
    CASE script \in {"analyze_qr_codes", "process_qr_codes"} -> results.errors
      [] script \in {"qr_processor", "process_all_images"} -> stats.skipped + stats.errors
      [] OTHER -> 0

\* C8: in every row loop, the iteration of a row whose url is missing or
\* empty calls neither the download function nor a decoder, and increments a
\* skipped or errors counter by one.
C8_EmptyUrlRowSkippedAndCounted ==
    [][(idx' = idx + 1 /\ MissingOrEmpty(sheet[idx + 1])) =>
           /\ fetch_calls' = fetch_calls
           /\ decode_calls' = decode_calls
           /\ SkippedPlusErrors' = SkippedPlusErrors + 1]_vars

\* C10: in analyze_qr_codes.process_excel, total_processed equals the number
\* of rows once the loop has ended.
C10_TotalCountsEveryRow ==
    (script = "analyze_qr_codes" /\ row_pc \in {"summary_printed", "save_failed"}) =>
        results.total_processed = Len(sheet)

\* The row the step completes took the branch named kind.
RowTook(kind) ==
    /\ Len(outcomes') = Len(outcomes) + 1
    /\ outcomes'[Len(outcomes')] = kind

\* The errors counter of the running script.
ErrorsCounter == IF script \in {"analyze_qr_codes", "process_qr_codes"} THEN results.errors
                 ELSE stats.errors

\* The cells a row gets when an exception is caught in its iteration.
ErrorPlaceholder ==
    IF script = "analyze_qr_codes" THEN [QR_CODE |-> "ERROR: Analysis failed"]
    ELSE [QR_CODE |-> "", STICKER |-> FALSE]

\* C11: in analyze_qr_codes.process_excel and qr_processor.process_excel, an
\* exception raised while a row's image is analysed (after a successful
\* fetch) is caught in that row's iteration: the row gets the error
\* placeholder, the errors counter grows by one, and the loop goes on with
\* the next row instead of ending the run.
C11_AnalysisExceptionCaught ==
    [][(script \in {"analyze_qr_codes", "qr_processor"} /\ RowTook("exception")) =>
           /\ fetch_calls' = fetch_calls + 1
           /\ df'[idx + 1] = ErrorPlaceholder'
           /\ \A i \in 1..Len(df) : i # idx + 1 => df'[i] = df[i]
           /\ ErrorsCounter' = ErrorsCounter + 1
           /\ idx' = idx + 1
           /\ row_pc' = "loop"]_vars

\* C11 witness: the first row of an analyze_qr_codes run ended in a caught
\* exception and the loop went on to complete the second row.
C11_Witness ==
    /\ script = "analyze_qr_codes"
    /\ Len(outcomes) >= 2
    /\ outcomes[1] = "exception"
    /\ df[1].QR_CODE = "ERROR: Analysis failed"
    /\ results.errors >= 1

\* The value a row without a QR code gets.
NotFoundValue == IF script = "analyze_qr_codes" THEN "NOT_FOUND" ELSE ""

\* The found and not-found counters of the running script.
FoundCounters ==
    IF script = "analyze_qr_codes"
    THEN <<results.qr_codes_found, results.multiple_qr_found, results.not_found>>
    ELSE <<stats.qr_found, stats.no_qr>>

\* C12: when the fetch of a row fails, no decoder is invoked for the row, the
\* row value signals the download failure (it is not the value of a row
\* without a QR code) with the presence flag false, the errors counter grows
\* by exactly one and no found or not-found counter changes.
C12_DownloadFailureSignalled ==
    [][(script \in {"analyze_qr_codes", "qr_processor"} /\ RowTook("download_failed")) =>
           /\ decode_calls' = decode_calls
           /\ df'[idx + 1].QR_CODE # NotFoundValue
           /\ (script = "qr_processor" => df'[idx + 1].STICKER = FALSE)
           /\ ErrorsCounter' = ErrorsCounter + 1
           /\ FoundCounters' = FoundCounters]_vars

\* The cells the two scripts write for a row whose download failed.
DownloadFailedCells ==
    IF script = "analyze_qr_codes" THEN [QR_CODE |-> "ERROR: Download failed"]
    ELSE [QR_CODE |-> "", STICKER |-> FALSE]

\* C12 (amended): when the fetch of a row fails, no decoder is invoked for
\* the row, the errors counter grows by exactly one and no found or not-found
\* counter changes; analyze_qr_codes writes "ERROR: Download failed" as the
\* row value (it has no presence flag), qr_processor writes the empty value
\* with the presence flag false, the cells of a row without a QR code.
C12_DownloadFailureRecorded ==
    [][(script \in {"analyze_qr_codes", "qr_processor"} /\ RowTook("download_failed")) =>
           /\ fetch_calls' = fetch_calls + 1
           /\ decode_calls' = decode_calls
           /\ df'[idx + 1] = DownloadFailedCells'
           /\ ErrorsCounter' = ErrorsCounter + 1
           /\ FoundCounters' = FoundCounters]_vars

\* C12 witness: a qr_processor row whose download failed, with its cells
\* written and the failure counted.
C12_Witness ==
    /\ script = "qr_processor"
    /\ idx >= 1
    /\ outcomes[idx] = "download_failed"
    /\ df[idx] = [QR_CODE |-> "", STICKER |-> FALSE]
    /\ stats.errors >= 1
    /\ decode_calls = 0

----------------------------------------------------------------------------
\* Claims about the stages of analyze_image (SpecAnalyze, SpecAnalyzeFair).

\* The entries of alog that are calls of the primary decoder, of any decoder,
\* and the calls that returned at least one payload.
PrimaryCalls == {i \in 1..Len(alog) : alog[i].ev = "pyzbar"}
SecondaryCalls == {i \in 1..Len(alog) : alog[i].ev = "opencv"}
Hits == {i \in PrimaryCalls \cup SecondaryCalls : alog[i].payloads # <<>>}

\* C13: within one analyze_image call the primary decoder is never invoked
\* after an invocation that returned a payload (a hit on the original skips
\* the enhancement chain, the first variant with a hit ends the iteration),
\* and the payloads collected are those of exactly one decoder invocation.
C13_NoPrimaryCallAfterHit ==
    /\ \A i \in PrimaryCalls : \A j \in PrimaryCalls :
           (i < j) => alog[i].payloads = <<>>
    /\ \A i \in PrimaryCalls :
           alog[i].payloads # <<>> =>
               /\ Hits = {i}
               /\ all_qr_data = alog[i].payloads
               /\ (alog[i].stage = "TryOriginal" => \A k \in 1..Len(alog) : alog[k].ev # "enhance")

\* C13 witness: the second variant of the chain had the hit, after two calls
\* without one, and analyze_image returned.
C13_Witness ==
    /\ apc = "returned"
    /\ Cardinality(PrimaryCalls) = 3
    /\ vi = 2
    /\ Len(enhanced_images) > 2
    /\ \E i \in PrimaryCalls : alog[i].image = enhanced_images[2] /\ Len(alog[i].payloads) >= 2

\* The images of the chain the primary decoder was called on in stage 2.
VariantsTried ==
    {alog[i].image : i \in {k \in PrimaryCalls : alog[k].stage = "TryEnhanced"}}

\* C14: when analyze_image has returned, the secondary backend was invoked
\* once, on the original bitmap, if the primary decoder returned no payload
\* on the original and on every variant of the chain, and was not invoked
\* otherwise; an empty result comes only after the original, every variant
\* produced and the secondary backend have been tried.
C14_SecondaryOnlyAfterAllPrimary ==
    /\ Cardinality(SecondaryCalls) <= 1
    /\ cvCalls = Cardinality(SecondaryCalls)
    /\ \A i \in SecondaryCalls :
           /\ alog[i].image = "original"
           /\ \A j \in PrimaryCalls : j < i /\ alog[j].payloads = <<>>
           /\ \E j \in PrimaryCalls : alog[j].stage = "TryOriginal"
           /\ VariantsTried = Range(enhanced_images)
           /\ enhanced_images # <<>>
    /\ apc \in {"returned", "formatted"} =>
           /\ (SecondaryCalls # {}) <=> (\A j \in PrimaryCalls : alog[j].payloads = <<>>)
           /\ unique_qr_data = <<>> =>
                  /\ \E j \in PrimaryCalls : alog[j].stage = "TryOriginal"
                  /\ VariantsTried = Range(enhanced_images)
                  /\ Cardinality(SecondaryCalls) = 1

\* C14 witness: nothing was found by any decoder and NOT_FOUND was produced
\* after the whole chain of five variants and the secondary backend.
C14_Witness ==
    /\ apc = "formatted"
    /\ result_text = "NOT_FOUND"
    /\ Len(enhanced_images) = 5
    /\ Cardinality(PrimaryCalls) = 6
    /\ cvCalls = 1

\* The order of the stages.
StageRank(stage) ==
    CASE stage = "TryOriginal" -> 1
      [] stage = "TryEnhanced" -> 2
      [] stage = "TrySecondaryBackend" -> 3
      [] stage = "Classify" -> 4

\* No stage is entered again after a later stage has begun, and the steps
\* that open a stage or produce the result happen at most once.
StagesInOrder ==
    /\ \A i \in 1..Len(alog) : \A j \in 1..Len(alog) :
           (i < j) => StageRank(alog[i].stage) <= StageRank(alog[j].stage)
    /\ \A ev \in {"enhance", "opencv", "dedup", "format"} :
           Cardinality({i \in 1..Len(alog) : alog[i].ev = ev}) <= 1
    /\ Cardinality({i \in PrimaryCalls : alog[i].stage = "TryOriginal"}) <= 1
    /\ Len(alog) <= Len(EnhanceSteps) + 6
    /\ (apc = "formatted") <=> (\E i \in 1..Len(alog) : alog[i].ev = "format")

\* C15: for a fetched image, the detection visits TryOriginal, TryEnhanced,
\* TrySecondaryBackend and Classify at most once each and in that order, takes
\* a bounded number of steps, always reaches Classify and produces exactly
\* one result.
C15_StagesOnceThenClassify ==
    /\ []StagesInOrder
    /\ <>(apc = "formatted")
    /\ [][apc = "formatted" => apc' = "formatted"]_vars

\* C15 witness: a run that went through all four stages and produced its
\* result.
C15_Witness ==
    /\ apc = "formatted"
    /\ {alog[i].stage : i \in 1..Len(alog)} =
           {"TryOriginal", "TryEnhanced", "TrySecondaryBackend", "Classify"}
    /\ result_text = "A"

----------------------------------------------------------------------------
\* Claims about QRCodeProcessor.decode_qr_code and process_image (SpecDecode).

\* The calls of the two backends in pq_calls.
PqPrimaryCalls == {i \in 1..Len(pq_calls) : pq_calls[i].backend = "pyzbar"}
PqSecondaryCalls == {i \in 1..Len(pq_calls) : pq_calls[i].backend = "opencv"}

\* The QR symbols of an answer of the primary backend.
QrSymbolsOf(ans) == {k \in 1..Len(ans.objs) : ans.objs[k].type = "QRCODE"}

\* The primary backend yielded no QR payload: it raised, found nothing, or
\* found only symbols of other kinds.
PrimaryYieldedNoQr ==
    \A i \in PqPrimaryCalls : pq_calls[i].raised \/ QrSymbolsOf(pq_calls[i]) = {}

\* The secondary backend decoded a payload or found a bounding region.
SecondaryDetected ==
    \E i \in PqSecondaryCalls :
        ~pq_calls[i].raised /\ (pq_calls[i].data # <<>> \/ pq_calls[i].bbox)

\* C16: only QR symbols contribute to the result of the primary decode path:
\* when the primary backend reported no QR symbol (and the secondary backend
\* detected nothing), the row is not counted as QR found, its flag is false
\* and no payload is returned.
C16_OnlyQrSymbolsCount ==
    (pq_pc = "done" /\ ~pq_result.error /\ PrimaryYieldedNoQr /\ ~SecondaryDetected) =>
        /\ ~pq_result.sticker_detected
        /\ pq_counters.qr_found = pq_before.qr_found
        /\ ~pq_result.decoded_data.some

\* C17: in decode_qr_code (both libraries imported), whenever the primary
\* backend yields no QR payload (nothing found, only non-QR symbols, or an
\* exception), the secondary backend is run on the image.
C17_SecondaryRunsWhenPrimaryEmpty ==
    (pq_pc = "done" /\ ~pq_result.error /\ pyzbar_available /\ cv2_available
       /\ PrimaryYieldedNoQr) =>
        PqSecondaryCalls # {}

\* The secondary backend found a bounding region but decoded no payload.
DetectedButUndecodable ==
    \E i \in PqSecondaryCalls :
        ~pq_calls[i].raised /\ pq_calls[i].data = <<>> /\ pq_calls[i].bbox

\* C18: "detected but undecodable" does not change the row's written output:
\* the presence flag and the value are those of a row in which nothing was
\* detected (flag false, empty value).
C18_UndecodableLeavesOutputAlone ==
    (pq_pc = "done" /\ DetectedButUndecodable) =>
        /\ pq_result.sticker_detected = FALSE
        /\ pq_result.qr_code = <<>>

\* The payload contains a word-bounded run of exactly 10 upper-case letters
\* or digits, starting at position k.
RunOfTenAt(payload, k) ==
    /\ k + 9 <= Len(payload)
    /\ \A i \in k..(k + 9) : IsUpperOrDigit(payload[i])
    /\ Boundary(payload, k)
    /\ Boundary(payload, k + 10)

HasRunOfTen(payload) == \E k \in 1..Len(payload) : RunOfTenAt(payload, k)

\* The payload contains a "code:" or "id:" label followed by at least 8
\* alphanumerics (of which up to 12 make the token).
HasLabelledCode(payload) ==
    \E k \in 1..Len(payload) :
        \E label \in {CodeLabel \o <<":">>, IdLabel \o <<":">>} :
            /\ LiteralAt(payload, k, label)
            /\ RunLength(payload, SkipSeparators(payload, k + Len(label))) >= 8

\* C19: a token supersedes the raw payload as the stored value if and only
\* if the payload contains a word-bounded run of exactly 10 upper-case
\* letters or digits or, failing that, a "code:" or "id:" label followed by 8
\* to 12 alphanumerics; the run of 10 has priority, and the stored token
\* consists of upper-case letters and digits only.
C19_TokenIffPattern ==
    (pq_pc = "done" /\ decoded_data.some) =>
        LET payload == decoded_data.chars
        IN /\ StrTruthy(extracted_code) <=> (HasRunOfTen(payload) \/ HasLabelledCode(payload))
           /\ StrTruthy(extracted_code) =>
                  /\ pq_result.qr_code = extracted_code.chars
                  /\ \A i \in 1..Len(extracted_code.chars) :
                         IsUpperOrDigit(extracted_code.chars[i])
           /\ HasRunOfTen(payload) =>
                  \E k \in 1..Len(payload) :
                      /\ RunOfTenAt(payload, k)
                      /\ pq_result.qr_code = SubSeq(payload, k, k + 9)

\* C20: when one payload is decoded and no token is extracted from it, the
\* value stored for the row is that payload verbatim, whatever its length.
C20_SinglePayloadVerbatim ==
    (pq_pc = "done" /\ decoded_data.some /\ ~StrTruthy(extracted_code)) =>
        pq_result.qr_code = decoded_data.chars

\* C20 (amended): when one payload is decoded and no token is extracted from
\* it, process_image stores the first 50 characters of the payload: the
\* payload verbatim when it has at most 50 characters, cut after the 50th
\* otherwise.
C20_SinglePayloadFirstFifty ==
    (pq_pc = "done" /\ decoded_data.some /\ ~StrTruthy(extracted_code)) =>
        LET payload == decoded_data.chars
            stored == pq_result.qr_code
        IN /\ Len(stored) = (IF Len(payload) <= 50 THEN Len(payload) ELSE 50)
           /\ \A i \in 1..Len(stored) : stored[i] = payload[i]

\* C20 witness: a payload of 51 characters without a token was decoded and
\* 50 characters of it were stored.
C20_Witness ==
    /\ pq_pc = "done"
    /\ decoded_data.some
    /\ ~StrTruthy(extracted_code)
    /\ Len(decoded_data.chars) = 51
    /\ Len(pq_result.qr_code) = 50

----------------------------------------------------------------------------
\* Claims about enhance_image (SpecAnalyze).

\* The full chain of variants, and the place of a variant in it.
Chain == <<"original">> \o EnhanceSteps
ChainPos(x) == CHOOSE k \in 1..Len(Chain) : Chain[k] = x

\* C25: whatever steps raise in enhance_image, the list it returns starts
\* with the original, holds between 1 and 5 variants, all of the chain
\* original, grayscale, contrast 2.0, brightness 1.5, sharpness 2.0 and in the
\* order of the chain, and holds a step exactly when the step did not raise.
C25_EnhanceChainSubsequence ==
    \A i \in 1..Len(alog) : alog[i].ev = "enhance" =>
        /\ Len(enhanced_images) >= 1
        /\ Len(enhanced_images) <= 5
        /\ enhanced_images[1] = "original"
        /\ \A k \in 1..Len(enhanced_images) : enhanced_images[k] \in Range(Chain)
        /\ \A k \in 1..Len(enhanced_images) : \A l \in 1..Len(enhanced_images) :
               k < l => ChainPos(enhanced_images[k]) < ChainPos(enhanced_images[l])
        /\ \A s \in Range(EnhanceSteps) :
               (s \in Range(enhanced_images)) <=> (s \notin alog[i].failed)

\* C25 witness: the contrast step raised and the three other steps are in
\* the list, in their order, after the original.
C25_Witness ==
    /\ \E i \in 1..Len(alog) : alog[i].ev = "enhance" /\ alog[i].failed = {"contrast2.0"}
    /\ enhanced_images = <<"original", "grayscale", "brightness1.5", "sharpness2.0">>

----------------------------------------------------------------------------
\* Claims about checkpoints, the summary and the exit status.

\* The number of completed rows at the last write of the output file that
\* was tried, 0 before the first.
LastSaveAfter == IF saves = <<>> THEN 0 ELSE saves[Len(saves)].after

\* C21: while the loop of analyze_qr_codes or process_qr_codes runs, fewer
\* than N rows have been completed since the last checkpoint write (N = 10
\* and N = 50), whatever the outcome of the rows: a write of the whole output
\* file is tried after every N-th row.
C21_CheckpointEveryNRows ==
    (script \in CheckpointScripts /\ row_pc = "loop") =>
        idx - LastSaveAfter < CheckpointInterval(script)

\* C22: in analyze_qr_codes, a run that reached the row loop has printed the
\* final summary when the process ends, on every path: also when the final
\* save fails and when the run is interrupted.
C22_SummaryAlwaysPrinted ==
    (script = "analyze_qr_codes" /\ input_file = "ok" /\ exit_status # <<>>) =>
        row_pc = "summary_printed"

\* C23: every entry point ends with status 0 when the run completes
\* normally, whatever happened to single rows, and with a status other than
\* 0 when the input file cannot be read, has no url column, or the run is
\* interrupted.
C23_ExitStatus ==
    exit_status # <<>> =>
        /\ (row_pc \in {"summary_printed", "returned"} => exit_status = <<0>>)
        /\ (input_file # "ok" \/ row_pc = "interrupted") => exit_status # <<0>>

\* C24: in analyze_qr_codes, at every point of the row loop the error log
\* has as many entries as the errors counter counts, one per failed row
\* (missing url, download failure, analysis failure), in the order of the
\* rows.
C24_OneLogEntryPerError ==
    (script = "analyze_qr_codes" /\ row_pc # "start") =>
        /\ Len(error_log) = results.errors
        /\ \A i \in 1..Len(error_log) : \A j \in 1..Len(error_log) :
               i < j => error_log[i].row < error_log[j].row

----------------------------------------------------------------------------
\* Claims about the result cells and the counters of the row loops.

\* A run of analyze_qr_codes or qr_processor that has read its sheet.
Az_Or_Qp_Running ==
    /\ script \in {"analyze_qr_codes", "qr_processor"}
    /\ input_file = "ok"
    /\ row_pc # "start"

\* A step of the run leaves alone the cells of every row but the one the
\* loop is at, and the cells of the rows already completed.
OnlyCurrentRowWritten ==
    script \in {"analyze_qr_codes", "qr_processor"} =>
        \A i \in 1..Len(df) :
            /\ (i # idx + 1) => (df'[i] = df[i] /\ cell_writes'[i] = cell_writes[i])
            /\ (i <= idx) => df'[i] = df[i]

\* C26: in analyze_qr_codes.process_excel and qr_processor.process_excel the
\* result cells of every completed row have been written exactly once, those
\* of the rows to come not at all, and a step writes no cells but those of
\* the row the loop is at.
C26_CellsWrittenExactlyOnce ==
    /\ [](Az_Or_Qp_Running =>
             \A i \in 1..Len(df) : cell_writes[i] = (IF i <= idx THEN 1 ELSE 0))
    /\ [][OnlyCurrentRowWritten]_vars

\* Row i was skipped by qr_processor for its empty url.
SkippedByQp(i) == script = "qr_processor" /\ i <= Len(outcomes) /\ outcomes[i] = "skipped"

\* C26 (amended): the result cells of a completed row have been written
\* exactly once by the loop, except that qr_processor writes nothing for a
\* row it skips for an empty url, whose cells keep the values of the column
\* reset; the cells of the rows to come have not been written, and a step
\* writes no cells but those of the row the loop is at.
C26_CellsWrittenAtMostOnce ==
    /\ [](Az_Or_Qp_Running =>
             \A i \in 1..Len(df) :
                 /\ cell_writes[i] = (IF i <= idx /\ ~SkippedByQp(i) THEN 1 ELSE 0)
                 /\ SkippedByQp(i) => df[i] = InitialCells(script))
    /\ [][OnlyCurrentRowWritten]_vars

\* C26 witness: a qr_processor run completed a row with a QR code, then
\* skipped a row, then completed a third row; the first row's cells are as
\* they were written.
C26_Witness ==
    /\ script = "qr_processor"
    /\ idx = 3
    /\ outcomes[1] = "found"
    /\ outcomes[2] = "skipped"
    /\ outcomes[3] = "download_failed"
    /\ df[1] = [QR_CODE |-> "A", STICKER |-> TRUE]
    /\ cell_writes = <<1, 0, 1>>

\* How many of the completed rows took the branch named kind.
RowsThatTook(kind) == Cardinality({i \in 1..Len(outcomes) : outcomes[i] = kind})

\* The sum of the four outcome counters of stats.
OutcomeCounters == stats.qr_found + stats.no_qr + stats.errors + stats.skipped

\* C27: in qr_processor.process_excel and process_all_images every completed
\* row has incremented exactly one of qr_found, no_qr, errors and skipped,
\* the one of the path it took, so the four counters add up to the number of
\* completed rows and, when the loop has ended, to total; in
\* process_all_images processed = qr_found + no_qr.
C27_OneCounterPerRow ==
    (script \in {"qr_processor", "process_all_images"} /\ input_file = "ok" /\ row_pc # "start") =>
        /\ stats.qr_found = RowsThatTook("found")
        /\ stats.no_qr = RowsThatTook("not_found")
        /\ stats.errors = RowsThatTook("download_failed") + RowsThatTook("exception")
        /\ stats.skipped = RowsThatTook("skipped")
        /\ OutcomeCounters = idx
        /\ (idx = Len(sheet) => OutcomeCounters = stats.total)
        /\ (script = "process_all_images" => stats.processed = stats.qr_found + stats.no_qr)

\* C27 witness: a process_all_images run has ended after a skipped row, a
\* row with a QR code and a row whose download failed.
C27_Witness ==
    /\ script = "process_all_images"
    /\ row_pc = "summary_printed"
    /\ outcomes = <<"skipped", "found", "download_failed">>
    /\ stats.total = 3
    /\ stats.processed = 1
    /\ stats.errors = 1

\* C29: in qr_processor.process_excel, at every point of the run and for
\* every row, STICKER is true exactly when QR_CODE is a non-empty string;
\* rows that were skipped, whose download failed, without a QR code or that
\* ended in an exception have the empty value and the flag false.
C29_StickerIffQrCode ==
    (script = "qr_processor" /\ input_file = "ok" /\ row_pc # "start") =>
        \A i \in 1..Len(df) :
            /\ df[i].STICKER <=> (df[i].QR_CODE # "")
            /\ (i <= Len(outcomes) /\ outcomes[i] # "found") =>
                   df[i] = [QR_CODE |-> "", STICKER |-> FALSE]

\* C29 witness: a qr_processor run with a row with a QR code (payload and
\* flag set) followed by a row without one and a skipped row.
C29_Witness ==
    /\ script = "qr_processor"
    /\ outcomes = <<"found", "not_found", "skipped">>
    /\ df[1] = [QR_CODE |-> "A", STICKER |-> TRUE]
    /\ df[2] = [QR_CODE |-> "", STICKER |-> FALSE]
    /\ df[3] = [QR_CODE |-> "", STICKER |-> FALSE]

----------------------------------------------------------------------------
\* Claims about the counters of QRCodeProcessor (SpecDecode).

\* The counters of self.results, and the lengths of the two lists, as a
\* tuple.
PqCounts ==
    <<pq_counters.successful, pq_counters.qr_found, pq_counters.codes_extracted,
      pq_counters.errors, Len(pq_counters.error_details), Len(pq_log)>>

\* C28: after any sequence of process_image calls, codes_extracted <=
\* qr_found <= successful, successful + errors is the number of calls made
\* (the length of processing_log), error_details has errors entries, and no
\* counter ever decreases.
C28_CountersConsistent ==
    /\ [](/\ pq_counters.codes_extracted <= pq_counters.qr_found
          /\ pq_counters.qr_found <= pq_counters.successful
          /\ pq_counters.successful + pq_counters.errors = Len(pq_log)
          /\ Len(pq_counters.error_details) = pq_counters.errors)
    /\ [][\A k \in 1..Len(PqCounts) : PqCounts'[k] >= PqCounts[k]]_vars

\* C28 witness: two calls were made; the first failed to fetch its image,
\* the second decoded a QR code with a token.
C28_Witness ==
    /\ pq_pc = "done"
    /\ Len(pq_log) = 2
    /\ pq_log[1].error
    /\ pq_counters.errors = 1
    /\ pq_counters.successful = 1
    /\ pq_counters.qr_found = 1
    /\ pq_counters.codes_extracted = 1

====
